---- MODULE Spec2Model ----
(***************************************************************************)
(* State-channel dispute resolution pallets of cApps-substrate:            *)
(*   single-session-app, multi-session-app, single-gomoku, multi-gomoku.   *)
(* Each pallet is an independent storage map  id -> info  driven by the    *)
(* dispatchables app_initiate / update_by_state / update_by_action /       *)
(* finalize_on_action_timeout.  A behaviour follows one pallet (variant).  *)
(*                                                                         *)
(* Conventions                                                             *)
(*   - a handler is an operator  h(st, n, input)  returning                *)
(*     [res |-> "Ok" | <error string> | "panic", store |-> <new map>];     *)
(*     the store it returns is what the storage holds after the call       *)
(*     (dispatchables are not transactional: a write made before an Err    *)
(*     stays; a panic aborts the extrinsic and nothing is written);        *)
(*   - Option<T> is a sequence: <<>> is None, <<v>> is Some(v);            *)
(*   - a signature is the pair (signer, signed bytes).                     *)
(***************************************************************************)
EXTENDS Integers, Sequences, FiniteSets, TLC

VARIABLES variant, now, store, last

vars == <<variant, now, store, last>>

(***************************************************************************)
(* Bounds of the model.                                                    *)
(***************************************************************************)
MaxBlock == 5
MaxTimeout == 2
MaxSeq == 3
MaxStoredSeq == 3
MaxDeadline == 7
MaxState == 2

Variants == {"single_session", "multi_session", "single_gomoku", "multi_gomoku"}

Accounts == {1, 2, 3}
Timeouts == 1..MaxTimeout
Seqs == 1..MaxSeq
StateBytes == 0..MaxState

(***************************************************************************)
(* Signatures (sp_runtime::traits::Verify).                                *)
(***************************************************************************)
Sign(account, bytes) == [signer |-> account, msg |-> bytes]

verify(signature, encoded, signer) ==
    signature.signer = signer /\ signature.msg = encoded

\* A signing plan says who signs at each position of `sigs`, and whether the
\* signature is over the submitted state or over other bytes (a corrupt one).
OverState(a) == [by |-> a, good |-> TRUE]
OverOther(a) == [by |-> a, good |-> FALSE]

SigPlans ==
    { <<OverState(1), OverState(2)>>,
      <<OverState(2), OverState(1)>>,
      <<OverState(1)>>,
      <<OverState(1), OverOther(2)>>,
      <<OverState(1), OverState(2), OverState(3)>> }

MakeSigs(plan, encoded) ==
    [i \in 1..Len(plan) |->
        Sign(plan[i].by, IF plan[i].good THEN encoded ELSE <<"other bytes">>)]

Result(res, st) == [res |-> res, store |-> st]
OkInfo(info) == [err |-> "Ok", info |-> info]
ErrInfo(e) == [err |-> e]

(***************************************************************************)
(* pallets/single-session-app                                              *)
(***************************************************************************)
\* T::Hashing::hash over app_account ++ nonce ++ players[0] ++ players[1];
\* the hash is taken collision-free, so the id is the hashed tuple itself.
ss_get_app_id(nonce, players) ==
    <<"_single_", nonce, players[1], players[2]>>

ss_encode_app_state(app_state) ==
    <<app_state.nonce, app_state.seq_num, app_state.state,
      app_state.timeout, app_state.app_id>>

ss_valid_signers(signatures, encoded, signers) ==
    IF Len(signatures) < 2 \/ Len(signers) < 2
    THEN "panic"   \* signatures[0] / signatures[1]: index out of bounds
    ELSE IF \/ /\ verify(signatures[1], encoded, signers[1])
               /\ verify(signatures[2], encoded, signers[2])
            \/ /\ verify(signatures[1], encoded, signers[2])
               /\ verify(signatures[2], encoded, signers[1])
         THEN "Ok"
         ELSE "Check co-sigs failed"

\* intend_settle that takes the timeout from the submitted app state
ss_intend_settle_proof_timeout(st, n, state_proof) ==
    LET app_state == state_proof.app_state IN
    IF app_state.app_id \notin DOMAIN st
    THEN ErrInfo("AppInfoNotExist")
    ELSE
    LET app_info == st[app_state.app_id]
        encoded == ss_encode_app_state(app_state)
        signed == ss_valid_signers(state_proof.sigs, encoded, app_info.players)
    IN  IF signed # "Ok" THEN ErrInfo(signed)
        ELSE IF app_info.status = "Finalized"
             THEN ErrInfo("app state is finalized")
        ELSE IF app_state.nonce # app_info.nonce
             THEN ErrInfo("nonce not match")
        ELSE IF ~(app_info.seq_num < app_state.seq_num)
             THEN ErrInfo("invalid sequence number")
        ELSE OkInfo([app_info EXCEPT !.seq_num = app_state.seq_num,
                                     !.timeout = app_state.timeout,
                                     !.deadline = n + app_state.timeout,
                                     !.status = "Settle"])

ss_intend_settle(st, n, state_proof) ==
    LET app_state == state_proof.app_state IN
    IF app_state.app_id \notin DOMAIN st
    THEN ErrInfo("AppInfoNotExist")
    ELSE
    LET app_info == st[app_state.app_id]
        encoded == ss_encode_app_state(app_state)
        signed == ss_valid_signers(state_proof.sigs, encoded, app_info.players)
    IN  IF signed # "Ok" THEN ErrInfo(signed)
        ELSE IF app_info.status = "Finalized"
             THEN ErrInfo("app state is finalized")
        ELSE IF app_state.nonce # app_info.nonce
             THEN ErrInfo("nonce not match")
        ELSE IF ~(app_info.seq_num < app_state.seq_num)
             THEN ErrInfo("invalid sequence number")
        ELSE OkInfo([app_info EXCEPT !.seq_num = app_state.seq_num,
                                     !.deadline = n + app_info.timeout,
                                     !.status = "Settle"])

ss_update_by_state(st, n, state_proof) ==
    LET r == ss_intend_settle(st, n, state_proof) IN
    IF r.err # "Ok" THEN Result(r.err, st)
    ELSE
    LET state == state_proof.app_state.state
        new_app_info ==
            IF state = 1 \/ state = 2
            THEN [r.info EXCEPT !.state = state, !.status = "Finalized"]
            ELSE [r.info EXCEPT !.state = state]
    IN  Result("Ok", [st EXCEPT ![state_proof.app_state.app_id] = new_app_info])

\* Faulty apply_action: the action-mode check is missing, so an Idle channel
\* escalates.  C8_StatusSteps does not hold of it.
ss_apply_action_from_idle(st, n, app_id) ==
    IF app_id \notin DOMAIN st
    THEN ErrInfo("AppInfoNotExist")
    ELSE
    LET app_info == st[app_id] IN
    IF app_info.status = "Finalized"
    THEN ErrInfo("app state is finalized")
    ELSE OkInfo([app_info EXCEPT !.seq_num = app_info.seq_num + 1,
                                 !.deadline = n + app_info.timeout,
                                 !.status = "Action"])

ss_apply_action(st, n, app_id) ==
    IF app_id \notin DOMAIN st
    THEN ErrInfo("AppInfoNotExist")
    ELSE
    LET app_info == st[app_id] IN
    IF app_info.status = "Finalized"
    THEN ErrInfo("app state is finalized")
    ELSE IF app_info.status = "Settle" /\ n > app_info.deadline
    THEN OkInfo([app_info EXCEPT !.seq_num = app_info.seq_num + 1,
                                 !.deadline = n + app_info.timeout,
                                 !.status = "Action"])
    ELSE IF app_info.status # "Action"
    THEN ErrInfo("app not in action mode")
    ELSE OkInfo([app_info EXCEPT !.seq_num = app_info.seq_num + 1,
                                 !.deadline = n + app_info.timeout,
                                 !.status = "Action"])

\* update_by_action that records a terminal action code as the state
ss_update_by_action_stores_action(st, n, app_id, action) ==
    LET r == ss_apply_action(st, n, app_id) IN
    IF r.err # "Ok" THEN Result(r.err, st)
    ELSE
    LET new_app_info ==
            IF action = 1 \/ action = 2
            THEN [r.info EXCEPT !.status = "Finalized", !.state = action]
            ELSE r.info
    IN  Result("Ok", [st EXCEPT ![app_id] = new_app_info])

ss_update_by_action(st, n, app_id, action) ==
    LET r == ss_apply_action(st, n, app_id) IN
    IF r.err # "Ok" THEN Result(r.err, st)
    ELSE
    LET new_app_info ==
            IF action = 1 \/ action = 2
            THEN [r.info EXCEPT !.status = "Finalized"]
            ELSE r.info
    IN  Result("Ok", [st EXCEPT ![app_id] = new_app_info])

\* Faulty finalize: the early return for Idle and Finalized is missing, so an
\* Idle channel is finalized.  C12_FinalizeIdleOrFinalized does not hold of it.
ss_finalize_any_status(st, n, app_id) ==
    IF app_id \notin DOMAIN st
    THEN Result("AppInfoNotExist", st)
    ELSE
    LET app_info == st[app_id] IN
    IF app_info.status = "Action" /\ ~(n > app_info.deadline)
    THEN Result("deadline no passes", st)
    ELSE IF app_info.status = "Settle"
            /\ ~(n > app_info.deadline + app_info.timeout)
    THEN Result("while setting", st)
    ELSE Result("Ok", [st EXCEPT ![app_id] =
                          [app_info EXCEPT !.status = "Finalized"]])

ss_finalize_on_action_timeout(st, n, app_id) ==
    IF app_id \notin DOMAIN st
    THEN Result("AppInfoNotExist", st)
    ELSE
    LET app_info == st[app_id] IN
    IF app_info.status = "Action" /\ ~(n > app_info.deadline)
    THEN Result("deadline no passes", st)
    ELSE IF app_info.status = "Settle"
            /\ ~(n > app_info.deadline + app_info.timeout)
    THEN Result("while setting", st)
    ELSE IF app_info.status \notin {"Action", "Settle"}
    THEN Result("Ok", st)
    ELSE Result("Ok", [st EXCEPT ![app_id] =
                          [app_info EXCEPT !.status = "Finalized"]])

ss_app_initiate(st, initiate_request) ==
    IF Len(initiate_request.players) < 2
    THEN Result("panic", st)   \* get_app_id reads players[0], players[1]
    ELSE
    LET app_id == ss_get_app_id(initiate_request.nonce, initiate_request.players) IN
    IF app_id \in DOMAIN st
    THEN Result("AppId alreads exists", st)
    ELSE Result("Ok", (app_id :> [state |-> 0,
                                  nonce |-> initiate_request.nonce,
                                  players |-> initiate_request.players,
                                  seq_num |-> 0,
                                  timeout |-> initiate_request.timeout,
                                  deadline |-> 0,
                                  status |-> "Idle"]) @@ st)

ss_is_finalized(st, app_id) ==
    IF app_id \notin DOMAIN st THEN Result("AppInfoNotExist", st)
    ELSE IF st[app_id].status # "Finalized" THEN Result("NotFinalized", st)
    ELSE Result("Ok", st)

ss_get_outcome(st, app_id, query) ==
    IF app_id \notin DOMAIN st THEN Result("AppInfoNotExist", st)
    ELSE IF st[app_id].state # query THEN Result("FalseOutcome", st)
    ELSE Result("Ok", st)

ss_get_state(st, app_id) ==
    IF app_id \notin DOMAIN st THEN <<>> ELSE <<st[app_id].state>>

ss_get_status(st, app_id) ==
    IF app_id \notin DOMAIN st THEN <<>> ELSE <<st[app_id].status>>

ss_get_settle_finalized_time(st, app_id) ==
    IF app_id \notin DOMAIN st THEN <<>>
    ELSE IF st[app_id].status = "Settle" THEN <<st[app_id].deadline>>
    ELSE <<>>

ss_get_action_deadline(st, app_id) ==
    IF app_id \notin DOMAIN st THEN <<>>
    ELSE IF st[app_id].status = "Action" THEN <<st[app_id].deadline>>
    ELSE IF st[app_id].status = "Settle"
    THEN <<st[app_id].deadline + st[app_id].timeout>>
    ELSE <<>>

ss_get_seq_num(st, app_id) ==
    IF app_id \notin DOMAIN st THEN <<>> ELSE <<st[app_id].seq_num>>

(***************************************************************************)
(* pallets/multi-session-app                                               *)
(***************************************************************************)
ms_get_session_id(nonce, players) ==
    <<"_multi__", nonce>> \o players

ms_encode_app_state(app_state) ==
    <<app_state.seq_num, app_state.state, app_state.timeout, app_state.session_id>>

\* for i in 0..signers.len(): signatures[i] must verify under signers[i]
RECURSIVE ms_valid_signers_from(_, _, _, _)
ms_valid_signers_from(i, signatures, encoded, signers) ==
    IF i > Len(signers) THEN "Ok"
    ELSE IF i > Len(signatures) THEN "panic"   \* signatures[i] out of bounds
    ELSE IF ~verify(signatures[i], encoded, signers[i])
         THEN "Check co-sigs failed"
    ELSE ms_valid_signers_from(i + 1, signatures, encoded, signers)

ms_valid_signers(signatures, encoded, signers) ==
    ms_valid_signers_from(1, signatures, encoded, signers)

\* let mut prev = &players[0]; for i in 1..len { ensure!(prev < &players[1]); prev = &players[i] }
RECURSIVE ms_is_ordered_from(_, _, _)
ms_is_ordered_from(i, prev, players) ==
    IF i > Len(players) THEN "Ok"
    ELSE IF ~(prev < players[2]) THEN "player is not ascending order"
    ELSE ms_is_ordered_from(i + 1, players[i], players)

ms_is_ordered_account(players) ==
    IF Len(players) < 1 THEN "panic"   \* players[0]
    ELSE ms_is_ordered_from(2, players[1], players)

ms_intend_settle(session_info, n, state_proof) ==
    LET app_state == state_proof.app_state IN
    IF (Len(state_proof.sigs) % 256) # session_info.player_num
    THEN ErrInfo("invalid number of players")
    ELSE
    LET encoded == ms_encode_app_state(app_state)
        signed == ms_valid_signers(state_proof.sigs, encoded, session_info.players)
    IN  IF signed # "Ok" THEN ErrInfo(signed)
        ELSE IF session_info.status = "Finalized"
             THEN ErrInfo("app state is finalized")
        ELSE IF ~(session_info.seq_num < app_state.seq_num)
             THEN ErrInfo("invalid sequence number")
        ELSE OkInfo([session_info EXCEPT !.seq_num = app_state.seq_num,
                                         !.deadline = n + session_info.timeout,
                                         !.status = "Settle"])

\* update_by_state that stores the new deadline before intend_settle has
\* accepted the proof
ms_update_by_state_write_first(st, n, state_proof) ==
    LET session_id == state_proof.app_state.session_id IN
    IF session_id \notin DOMAIN st
    THEN Result("SessionInfoNotExist", st)
    ELSE
    LET st1 == [st EXCEPT ![session_id].deadline = n + st[session_id].timeout]
        r == ms_intend_settle(st[session_id], n, state_proof)
    IN
    IF r.err # "Ok" THEN Result(r.err, st1)
    ELSE
    LET state == state_proof.app_state.state
        new_session_info ==
            IF state = 1 \/ state = 2
            THEN [r.info EXCEPT !.state = state, !.status = "Finalized"]
            ELSE [r.info EXCEPT !.state = state]
    IN  Result("Ok", [st EXCEPT ![session_id] = new_session_info])

ms_update_by_state(st, n, state_proof) ==
    LET session_id == state_proof.app_state.session_id IN
    IF session_id \notin DOMAIN st
    THEN Result("SessionInfoNotExist", st)
    ELSE
    LET r == ms_intend_settle(st[session_id], n, state_proof) IN
    IF r.err # "Ok" THEN Result(r.err, st)
    ELSE
    LET state == state_proof.app_state.state
        new_session_info ==
            IF state = 1 \/ state = 2
            THEN [r.info EXCEPT !.state = state, !.status = "Finalized"]
            ELSE [r.info EXCEPT !.state = state]
    IN  Result("Ok", [st EXCEPT ![session_id] = new_session_info])

\* Faulty apply_action: a channel in Settle escalates without waiting for the
\* settle deadline.  C6_NotInActionMode does not hold of it.
ms_apply_action_eager(session_info, n) ==
    IF session_info.status = "Finalized"
    THEN ErrInfo("app state is finalized")
    ELSE IF session_info.status \notin {"Settle", "Action"}
    THEN ErrInfo("app not in action mode")
    ELSE OkInfo([session_info EXCEPT !.seq_num = session_info.seq_num + 1,
                                     !.deadline = n + session_info.timeout,
                                     !.status = "Action"])

ms_apply_action(session_info, n) ==
    IF session_info.status = "Finalized"
    THEN ErrInfo("app state is finalized")
    ELSE IF session_info.status = "Settle" /\ n > session_info.deadline
    THEN OkInfo([session_info EXCEPT !.seq_num = session_info.seq_num + 1,
                                     !.deadline = n + session_info.timeout,
                                     !.status = "Action"])
    ELSE IF session_info.status # "Action"
    THEN ErrInfo("app not in action mode")
    ELSE OkInfo([session_info EXCEPT !.seq_num = session_info.seq_num + 1,
                                     !.deadline = n + session_info.timeout,
                                     !.status = "Action"])

ms_update_by_action(st, n, session_id, action) ==
    IF session_id \notin DOMAIN st
    THEN Result("SessionInfoNotExist", st)
    ELSE
    LET r == ms_apply_action(st[session_id], n) IN
    IF r.err # "Ok" THEN Result(r.err, st)
    ELSE
    LET new_session_info ==
            IF action = 1 \/ action = 2
            THEN [r.info EXCEPT !.status = "Finalized"]
            ELSE r.info
    IN  Result("Ok", [st EXCEPT ![session_id] = new_session_info])

\* Faulty finalize: the Action deadline is not checked, so the channel is
\* finalized early.  C10_EarlyFinalizeFails does not hold of it.
ms_finalize_without_deadline(st, n, session_id) ==
    IF session_id \notin DOMAIN st
    THEN Result("SessionInfoNotExist", st)
    ELSE
    LET session_info == st[session_id] IN
    IF session_info.status = "Settle"
       /\ ~(n > session_info.deadline + session_info.timeout)
    THEN Result("while setting", st)
    ELSE IF session_info.status \notin {"Action", "Settle"}
    THEN Result("Ok", st)
    ELSE Result("Ok", [st EXCEPT ![session_id] =
                          [session_info EXCEPT !.status = "Finalized"]])

ms_finalize_on_action_timeout(st, n, session_id) ==
    IF session_id \notin DOMAIN st
    THEN Result("SessionInfoNotExist", st)
    ELSE
    LET session_info == st[session_id] IN
    IF session_info.status = "Action" /\ ~(n > session_info.deadline)
    THEN Result("deadline does not passes", st)
    ELSE IF session_info.status = "Settle"
            /\ ~(n > session_info.deadline + session_info.timeout)
    THEN Result("while setting", st)
    ELSE IF session_info.status \notin {"Action", "Settle"}
    THEN Result("Ok", st)
    ELSE Result("Ok", [st EXCEPT ![session_id] =
                          [session_info EXCEPT !.status = "Finalized"]])

ms_session_initiate(st, initiate_request) ==
    LET session_id == ms_get_session_id(initiate_request.nonce,
                                        initiate_request.players) IN
    IF session_id \in DOMAIN st
    THEN Result("session_id is used", st)
    ELSE
    LET ordered == ms_is_ordered_account(initiate_request.players) IN
    IF ordered # "Ok" THEN Result(ordered, st)
    ELSE Result("Ok", (session_id :> [state |-> 0,
                                      players |-> initiate_request.players,
                                      player_num |-> initiate_request.player_num,
                                      seq_num |-> 0,
                                      timeout |-> initiate_request.timeout,
                                      deadline |-> 0,
                                      status |-> "Idle"]) @@ st)

ms_is_finalized(st, session_id) ==
    IF session_id \notin DOMAIN st THEN Result("SessionInfoNotExist", st)
    ELSE IF st[session_id].status # "Finalized" THEN Result("NotFinalized", st)
    ELSE Result("Ok", st)

ms_get_outcome(st, session_id, query) ==
    IF session_id \notin DOMAIN st THEN Result("SessionInfoNotExist", st)
    ELSE IF st[session_id].state # query THEN Result("FalseOutcome", st)
    ELSE Result("Ok", st)

ms_get_state(st, session_id) ==
    IF session_id \notin DOMAIN st THEN <<>> ELSE <<st[session_id].state>>

ms_get_status(st, session_id) ==
    IF session_id \notin DOMAIN st THEN <<>> ELSE <<st[session_id].status>>

ms_get_settle_finalized_time(st, session_id) ==
    IF session_id \notin DOMAIN st THEN <<>>
    ELSE IF st[session_id].status = "Settle" THEN <<st[session_id].deadline>>
    ELSE <<>>

ms_get_action_deadline(st, session_id) ==
    IF session_id \notin DOMAIN st THEN <<>>
    ELSE IF st[session_id].status = "Action" THEN <<st[session_id].deadline>>
    ELSE IF st[session_id].status = "Settle"
    THEN <<st[session_id].deadline + st[session_id].timeout>>
    ELSE <<>>

ms_get_seq_num(st, session_id) ==
    IF session_id \notin DOMAIN st THEN <<>> ELSE <<st[session_id].seq_num>>

(***************************************************************************)
(* Byte buffers: Rust index k (from 0) is position k + 1 of the sequence.  *)
(***************************************************************************)
At(buf, k) == buf[k + 1]
SetAt(buf, k, v) == [buf EXCEPT ![k + 1] = v]
Zeros(len) == [k \in 1..len |-> 0]
UnwrapOr(opt, default) == IF opt = <<>> THEN default ELSE opt[1]
\* _state.iter() advanced `skip` times, then filter(|x| *x != 0).count()
CountNonZeroAfter(buf, skip) ==
    Cardinality({k \in (skip + 1)..Len(buf) : buf[k] # 0})

(***************************************************************************)
(* pallets/single-gomoku                                                   *)
(***************************************************************************)
sg_board_len == 227

sg_get_session_id(nonce, players) ==
    <<"s_gomoku", nonce, players[1], players[2]>>

sg_encode_app_state(app_state) ==
    <<app_state.nonce, app_state.seq_num>> \o app_state.board_state
        \o <<app_state.timeout, app_state.session_id>>

sg_check_boundary(x, y) == x < 15 /\ y < 15

sg_state_index(x, y) == 2 + 15 * x + y

\* while count <= 5 { ... } ; Some(count) on the first mismatch, None after 5 matches
RECURSIVE sg_count_stone_from(_, _, _, _, _, _)
sg_count_stone_from(count, board, x0, y0, xdir, ydir) ==
    IF count > 5 THEN <<>>
    ELSE LET x == (x0 + xdir * count) % 256
             y == (y0 + ydir * count) % 256
         IN  IF sg_check_boundary(x, y)
                /\ At(board, sg_state_index(x, y)) = At(board, sg_state_index(x0, y0))
             THEN sg_count_stone_from(count + 1, board, x0, y0, xdir, ydir)
             ELSE <<count>>

sg_count_stone(board, x0, y0, xdir, ydir) ==
    sg_count_stone_from(1, board, x0, y0, xdir, ydir)

\* [panic, five]: unwrap() of a None count panics
sg_check_five(board, x0, y0, xdir, ydir) ==
    LET fwd == sg_count_stone(board, x0, y0, xdir, ydir)
        bwd == sg_count_stone(board, x0, y0, -xdir, -ydir)
    IN  IF fwd = <<>> \/ bwd = <<>>
        THEN [panic |-> TRUE, five |-> FALSE]
        ELSE [panic |-> FALSE, five |-> fwd[1] + bwd[1] - 1 >= 5]

\* check_five(1,0) || check_five(0,1) || check_five(1,1) || check_five(1,-1)
RECURSIVE sg_any_five_from(_, _, _, _)
sg_any_five_from(dirs, board, x0, y0) ==
    IF dirs = <<>> THEN [panic |-> FALSE, five |-> FALSE]
    ELSE LET c == sg_check_five(board, x0, y0, dirs[1][1], dirs[1][2]) IN
         IF c.panic \/ c.five THEN c
         ELSE sg_any_five_from(Tail(dirs), board, x0, y0)

sg_any_five(board, x0, y0) ==
    sg_any_five_from(<< <<1, 0>>, <<0, 1>>, <<1, 1>>, <<1, -1>> >>, board, x0, y0)

\* win_game that takes any byte as the winner
sg_win_game_any_winner(winner, gomoku_info) ==
    LET b0 == UnwrapOr(gomoku_info.gomoku_state.board_state, Zeros(sg_board_len))
        b1 == SetAt(b0, 0, winner)
    IN  IF winner # 0
        THEN OkInfo([gomoku_info EXCEPT
                        !.status = "Finalized",
                        !.gomoku_state.board_state = <<SetAt(b1, 1, 0)>>])
        ELSE OkInfo([gomoku_info EXCEPT !.gomoku_state.board_state = <<b1>>])

\* win_game that records the winner but leaves the status as it is
sg_win_game_keeps_status(winner, gomoku_info) ==
    IF ~(0 <= winner /\ winner <= 2)
    THEN ErrInfo("invalid winner state")
    ELSE
    LET b0 == UnwrapOr(gomoku_info.gomoku_state.board_state, Zeros(sg_board_len))
        b1 == SetAt(b0, 0, winner)
    IN  OkInfo([gomoku_info EXCEPT !.gomoku_state.board_state = <<b1>>])

sg_win_game(winner, gomoku_info) ==
    IF ~(0 <= winner /\ winner <= 2)
    THEN ErrInfo("invalid winner state")
    ELSE
    LET b0 == UnwrapOr(gomoku_info.gomoku_state.board_state, Zeros(sg_board_len))
        b1 == SetAt(b0, 0, winner)
    IN  IF winner # 0
        THEN OkInfo([gomoku_info EXCEPT
                        !.status = "Finalized",
                        !.gomoku_state.board_state = <<SetAt(b1, 1, 0)>>])
        ELSE OkInfo([gomoku_info EXCEPT !.gomoku_state.board_state = <<b1>>])

\* valid_signers that takes the two signatures in either order
sg_valid_signers_either_order(signatures, encoded, signers) ==
    IF Len(signatures) < 2 \/ Len(signers) < 2 THEN "panic"
    ELSE IF \/ /\ verify(signatures[1], encoded, signers[1])
               /\ verify(signatures[2], encoded, signers[2])
            \/ /\ verify(signatures[1], encoded, signers[2])
               /\ verify(signatures[2], encoded, signers[1])
         THEN "Ok"
         ELSE "Check co-sigs failed"

sg_valid_signers(signatures, encoded, signers) ==
    IF Len(signatures) < 1 \/ Len(signers) < 1 THEN "panic"
    ELSE IF ~verify(signatures[1], encoded, signers[1])
         THEN "Check co-sigs failed"
    ELSE IF Len(signatures) < 2 \/ Len(signers) < 2 THEN "panic"
    ELSE IF ~verify(signatures[2], encoded, signers[2])
         THEN "Check co-sigs failed"
    ELSE "Ok"

sg_intend_settle(gomoku_info, n, state_proof) ==
    LET app_state == state_proof.app_state
        encoded == sg_encode_app_state(app_state)
        signed == sg_valid_signers(state_proof.sigs, encoded, gomoku_info.players)
    IN  IF signed # "Ok" THEN ErrInfo(signed)
        ELSE IF gomoku_info.status = "Finalized"
             THEN ErrInfo("app state is finalized")
        ELSE IF app_state.nonce # gomoku_info.nonce
             THEN ErrInfo("nonce not match")
        ELSE IF ~(gomoku_info.seq_num < app_state.seq_num)
             THEN ErrInfo("invalid sequence number")
        ELSE OkInfo([gomoku_info EXCEPT !.seq_num = app_state.seq_num,
                                        !.deadline = n + gomoku_info.timeout,
                                        !.status = "Settle"])

\* update_by_state that stores a board of any length
sg_update_by_state_any_length(st, n, state_proof) ==
    LET session_id == state_proof.app_state.session_id IN
    IF session_id \notin DOMAIN st
    THEN Result("SingleGomokuInfoNotExist", st)
    ELSE
    LET r == sg_intend_settle(st[session_id], n, state_proof)
        state == state_proof.app_state.board_state
    IN
    IF r.err # "Ok" THEN Result(r.err, st)
    ELSE
    LET count == 0
        w == IF At(state, 0) # 0
             THEN sg_win_game(At(state, 0), r.info)
             ELSE IF ~(CountNonZeroAfter(state, 3) % 256
                         >= r.info.gomoku_state.min_stone_offchain)
                  THEN ErrInfo("not enough offchain stones")
                  ELSE OkInfo(r.info)
    IN  IF w.err # "Ok" THEN Result(w.err, st)
        ELSE Result("Ok", [st EXCEPT ![session_id] =
                 [w.info EXCEPT !.gomoku_state.board_state = <<state>>,
                                !.gomoku_state.stone_num = <<count>>]])

sg_update_by_state(st, n, state_proof) ==
    LET session_id == state_proof.app_state.session_id IN
    IF session_id \notin DOMAIN st
    THEN Result("SingleGomokuInfoNotExist", st)
    ELSE
    LET r == sg_intend_settle(st[session_id], n, state_proof)
        state == state_proof.app_state.board_state
    IN
    IF r.err # "Ok" THEN Result(r.err, st)
    ELSE IF Len(state) # 227 THEN Result("invalid board state length", st)
    ELSE
    LET count == 0   \* the outer `count`; the counted value is shadowed
        w == IF At(state, 0) # 0
             THEN sg_win_game(At(state, 0), r.info)
             ELSE IF ~(CountNonZeroAfter(state, 3) % 256
                         >= r.info.gomoku_state.min_stone_offchain)
                  THEN ErrInfo("not enough offchain stones")
                  ELSE OkInfo(r.info)
    IN  IF w.err # "Ok" THEN Result(w.err, st)
        ELSE Result("Ok", [st EXCEPT ![session_id] =
                 [w.info EXCEPT !.gomoku_state.board_state = <<state>>,
                                !.gomoku_state.stone_num = <<count>>]])

\* Faulty apply_action: the deadline is not moved.  C7_ApplyActionEffect does
\* not hold of it.
sg_apply_action_stale_deadline(gomoku_info, n) ==
    IF gomoku_info.status = "Finalized"
    THEN ErrInfo("app state is finalized")
    ELSE IF gomoku_info.status = "Settle" /\ n > gomoku_info.deadline
    THEN OkInfo([gomoku_info EXCEPT !.seq_num = gomoku_info.seq_num + 1,
                                    !.status = "Action"])
    ELSE IF gomoku_info.status # "Action"
    THEN ErrInfo("app not in action mode")
    ELSE OkInfo([gomoku_info EXCEPT !.seq_num = gomoku_info.seq_num + 1,
                                    !.status = "Action"])

sg_apply_action(gomoku_info, n) ==
    IF gomoku_info.status = "Finalized"
    THEN ErrInfo("app state is finalized")
    ELSE IF gomoku_info.status = "Settle" /\ n > gomoku_info.deadline
    THEN OkInfo([gomoku_info EXCEPT !.seq_num = gomoku_info.seq_num + 1,
                                    !.deadline = n + gomoku_info.timeout,
                                    !.status = "Action"])
    ELSE IF gomoku_info.status # "Action"
    THEN ErrInfo("app not in action mode")
    ELSE OkInfo([gomoku_info EXCEPT !.seq_num = gomoku_info.seq_num + 1,
                                    !.deadline = n + gomoku_info.timeout,
                                    !.status = "Action"])

\* update_by_action that leaves the turn byte as it was
sg_update_by_action_keeps_turn(st, n, caller, session_id, action) ==
    IF session_id \notin DOMAIN st
    THEN Result("SingleGomokuInfoNotExist", st)
    ELSE
    LET r == sg_apply_action(st[session_id], n) IN
    IF r.err # "Ok" THEN Result(r.err, st)
    ELSE
    LET gomoku_state == r.info.gomoku_state
        board_state == UnwrapOr(gomoku_state.board_state, Zeros(sg_board_len))
        turn == At(board_state, 1)
    IN
    IF turn < 1 \/ turn > Len(r.info.players)
    THEN Result("panic", st)   \* players[turn as usize - 1]
    ELSE IF caller # r.info.players[turn]
    THEN Result("not your turn", st)
    ELSE IF Len(action) < 2
    THEN Result("panic", st)   \* action[0], action[1]
    ELSE
    LET x == action[1]
        y == action[2]
    IN
    IF ~sg_check_boundary(x, y) THEN Result("out of boundary", st)
    ELSE IF At(board_state, sg_state_index(x, y)) # 0
    THEN Result("slot is occupied", st)
    ELSE
    LET placed == SetAt(board_state, sg_state_index(x, y), turn)
        new_stone_num == (UnwrapOr(gomoku_state.stone_num, 0) + 1) % 65536
        new_stone_num_onchain ==
            (UnwrapOr(gomoku_state.stone_num_onchain, 0) + 1) % 65536
        counted == [gomoku_state EXCEPT
                        !.board_state = <<placed>>,
                        !.stone_num = <<new_stone_num>>,
                        !.stone_num_onchain = <<new_stone_num_onchain>>]
        new_gomoku_info == [r.info EXCEPT !.gomoku_state = counted]
        five == sg_any_five(placed, x, y)
    IN
    IF five.panic THEN Result("panic", st)
    ELSE IF five.five
    THEN LET w == sg_win_game(turn, new_gomoku_info) IN
         IF w.err # "Ok" THEN Result(w.err, st)
         ELSE Result("Ok", [st EXCEPT ![session_id] = w.info])
    ELSE IF new_stone_num = 225
            \/ new_stone_num_onchain % 256 > gomoku_state.max_stone_onchain
    THEN Result("Ok", [st EXCEPT ![session_id] =
             [new_gomoku_info EXCEPT
                 !.status = "Finalized",
                 !.gomoku_state.board_state = <<SetAt(placed, 1, 0)>>]])
    ELSE Result("Ok", [st EXCEPT ![session_id] =
             [new_gomoku_info EXCEPT
                 !.gomoku_state.board_state =
                     <<placed>>]])

sg_update_by_action(st, n, caller, session_id, action) ==
    IF session_id \notin DOMAIN st
    THEN Result("SingleGomokuInfoNotExist", st)
    ELSE
    LET r == sg_apply_action(st[session_id], n) IN
    IF r.err # "Ok" THEN Result(r.err, st)
    ELSE
    LET gomoku_state == r.info.gomoku_state
        board_state == UnwrapOr(gomoku_state.board_state, Zeros(sg_board_len))
        turn == At(board_state, 1)
    IN
    IF turn < 1 \/ turn > Len(r.info.players)
    THEN Result("panic", st)   \* players[turn as usize - 1]
    ELSE IF caller # r.info.players[turn]
    THEN Result("not your turn", st)
    ELSE IF Len(action) < 2
    THEN Result("panic", st)   \* action[0], action[1]
    ELSE
    LET x == action[1]
        y == action[2]
    IN
    IF ~sg_check_boundary(x, y) THEN Result("out of boundary", st)
    ELSE IF At(board_state, sg_state_index(x, y)) # 0
    THEN Result("slot is occupied", st)
    ELSE
    LET placed == SetAt(board_state, sg_state_index(x, y), turn)
        new_stone_num == (UnwrapOr(gomoku_state.stone_num, 0) + 1) % 65536
        new_stone_num_onchain ==
            (UnwrapOr(gomoku_state.stone_num_onchain, 0) + 1) % 65536
        counted == [gomoku_state EXCEPT
                        !.board_state = <<placed>>,
                        !.stone_num = <<new_stone_num>>,
                        !.stone_num_onchain = <<new_stone_num_onchain>>]
        new_gomoku_info == [r.info EXCEPT !.gomoku_state = counted]
        five == sg_any_five(placed, x, y)
    IN
    IF five.panic THEN Result("panic", st)
    ELSE IF five.five
    THEN LET w == sg_win_game(turn, new_gomoku_info) IN
         IF w.err # "Ok" THEN Result(w.err, st)
         ELSE Result("Ok", [st EXCEPT ![session_id] = w.info])
    ELSE IF new_stone_num = 225
            \/ new_stone_num_onchain % 256 > gomoku_state.max_stone_onchain
    THEN Result("Ok", [st EXCEPT ![session_id] =
             [new_gomoku_info EXCEPT
                 !.status = "Finalized",
                 !.gomoku_state.board_state = <<SetAt(placed, 1, 0)>>]])
    ELSE Result("Ok", [st EXCEPT ![session_id] =
             [new_gomoku_info EXCEPT
                 !.gomoku_state.board_state =
                     <<SetAt(placed, 1, IF turn = 1 THEN 2 ELSE 1)>>]])

\* Faulty finalize: a channel in Settle is finalized as soon as its deadline
\* has passed, without the further timeout.  C11_DeadlineNotPassed does not
\* hold of it.
sg_finalize_without_grace(st, n, session_id) ==
    IF session_id \notin DOMAIN st
    THEN Result("SingleGomokuInfoNotExist", st)
    ELSE
    LET gomoku_info == st[session_id] IN
    IF gomoku_info.status = "Action" /\ ~(n > gomoku_info.deadline)
    THEN Result("deadline no passes", st)
    ELSE IF gomoku_info.status = "Settle" /\ ~(n > gomoku_info.deadline)
    THEN Result("while settling", st)
    ELSE IF gomoku_info.status \notin {"Action", "Settle"}
    THEN Result("Ok", st)
    ELSE IF gomoku_info.gomoku_state.board_state = <<>>
    THEN Result("EmptyBoardState", st)
    ELSE
    LET turn == At(gomoku_info.gomoku_state.board_state[1], 1) IN
    IF turn \notin {1, 2} THEN Result("Ok", st)
    ELSE LET w == sg_win_game(IF turn = 1 THEN 2 ELSE 1, gomoku_info) IN
         IF w.err # "Ok" THEN Result(w.err, st)
         ELSE Result("Ok", [st EXCEPT ![session_id] = w.info])

\* finalize_on_action_timeout that names the player to move as the winner
sg_finalize_on_action_timeout_mover_wins(st, n, session_id) ==
    IF session_id \notin DOMAIN st
    THEN Result("SingleGomokuInfoNotExist", st)
    ELSE
    LET gomoku_info == st[session_id] IN
    IF gomoku_info.status = "Action" /\ ~(n > gomoku_info.deadline)
    THEN Result("deadline no passes", st)
    ELSE IF gomoku_info.status = "Settle"
            /\ ~(n > gomoku_info.deadline + gomoku_info.timeout)
    THEN Result("while settling", st)
    ELSE IF gomoku_info.status \notin {"Action", "Settle"}
    THEN Result("Ok", st)
    ELSE IF gomoku_info.gomoku_state.board_state = <<>>
    THEN Result("EmptyBoardState", st)
    ELSE
    LET turn == At(gomoku_info.gomoku_state.board_state[1], 1) IN
    IF turn \notin {1, 2} THEN Result("Ok", st)
    ELSE LET w == sg_win_game(turn, gomoku_info) IN
         IF w.err # "Ok" THEN Result(w.err, st)
         ELSE Result("Ok", [st EXCEPT ![session_id] = w.info])

sg_finalize_on_action_timeout(st, n, session_id) ==
    IF session_id \notin DOMAIN st
    THEN Result("SingleGomokuInfoNotExist", st)
    ELSE
    LET gomoku_info == st[session_id] IN
    IF gomoku_info.status = "Action" /\ ~(n > gomoku_info.deadline)
    THEN Result("deadline no passes", st)
    ELSE IF gomoku_info.status = "Settle"
            /\ ~(n > gomoku_info.deadline + gomoku_info.timeout)
    THEN Result("while settling", st)
    ELSE IF gomoku_info.status \notin {"Action", "Settle"}
    THEN Result("Ok", st)
    ELSE IF gomoku_info.gomoku_state.board_state = <<>>
    THEN Result("EmptyBoardState", st)
    ELSE
    LET turn == At(gomoku_info.gomoku_state.board_state[1], 1) IN
    IF turn \notin {1, 2} THEN Result("Ok", st)
    ELSE LET w == sg_win_game(IF turn = 1 THEN 2 ELSE 1, gomoku_info) IN
         IF w.err # "Ok" THEN Result(w.err, st)
         ELSE Result("Ok", [st EXCEPT ![session_id] = w.info])

sg_app_initiate(st, initiate_request) ==
    IF Len(initiate_request.players) < 2
    THEN Result("panic", st)   \* get_session_id reads players[0], players[1]
    ELSE
    LET session_id == sg_get_session_id(initiate_request.nonce,
                                        initiate_request.players) IN
    IF session_id \in DOMAIN st
    THEN Result("AppId already exists", st)
    ELSE IF Len(initiate_request.players) # 2
    THEN Result("invalid player length", st)
    ELSE IF ~(initiate_request.players[1] < initiate_request.players[2])
    THEN Result("players is not asscending order", st)
    ELSE Result("Ok",
           (session_id :>
              [nonce |-> initiate_request.nonce,
               players |-> initiate_request.players,
               seq_num |-> 0,
               timeout |-> initiate_request.timeout,
               deadline |-> 0,
               status |-> "Idle",
               gomoku_state |->
                  [board_state |-> <<>>,
                   stone_num |-> <<>>,
                   stone_num_onchain |-> <<>>,
                   state_key |-> <<>>,
                   min_stone_offchain |-> initiate_request.min_stone_offchain,
                   max_stone_onchain |-> initiate_request.max_stone_onchain]])
           @@ st)

sg_is_finalized(st, session_id) ==
    IF session_id \notin DOMAIN st THEN Result("SingleGomokuInfoNotExist", st)
    ELSE IF st[session_id].status # "Finalized" THEN Result("NotFinalized", st)
    ELSE Result("Ok", st)

\* get_outcome that treats a channel without a board as a plain mismatch
sg_get_outcome_no_board_false(st, session_id, query) ==
    IF session_id \notin DOMAIN st THEN Result("SingleGomokuInfoNotExist", st)
    ELSE IF st[session_id].gomoku_state.board_state = <<>>
    THEN Result("FalseOutcome", st)
    ELSE IF At(st[session_id].gomoku_state.board_state[1], 0) # query
    THEN Result("FalseOutcome", st)
    ELSE Result("Ok", st)

sg_get_outcome(st, session_id, query) ==
    IF session_id \notin DOMAIN st THEN Result("SingleGomokuInfoNotExist", st)
    ELSE IF st[session_id].gomoku_state.board_state = <<>>
    THEN Result("EmptyBoardState", st)
    ELSE IF At(st[session_id].gomoku_state.board_state[1], 0) # query
    THEN Result("FalseOutcome", st)
    ELSE Result("Ok", st)

\* key: 0 the turn byte, 1 the winner byte, 2 the whole board; "panic" is the
\* unwrap() of a board that was never stored
sg_get_state(st, session_id, key) ==
    IF session_id \notin DOMAIN st THEN <<>>
    ELSE IF st[session_id].gomoku_state.board_state = <<>> THEN "panic"
    ELSE LET board_state == st[session_id].gomoku_state.board_state[1] IN
         IF key = 1 THEN << <<At(board_state, 0)>> >>
         ELSE IF key = 0 THEN << <<At(board_state, 1)>> >>
         ELSE IF key = 2 THEN <<board_state>>
         ELSE <<>>

\* Faulty get_status: an unknown id reads as an Idle channel.
\* C16_UnknownChannel does not hold of it.
sg_get_status_default(st, session_id) ==
    IF session_id \notin DOMAIN st THEN <<"Idle">> ELSE <<st[session_id].status>>

sg_get_status(st, session_id) ==
    IF session_id \notin DOMAIN st THEN <<>> ELSE <<st[session_id].status>>

sg_get_settle_finalized_time(st, session_id) ==
    IF session_id \notin DOMAIN st THEN <<>>
    ELSE IF st[session_id].status = "Settle" THEN <<st[session_id].deadline>>
    ELSE <<>>

sg_get_action_deadline(st, session_id) ==
    IF session_id \notin DOMAIN st THEN <<>>
    ELSE IF st[session_id].status = "Action" THEN <<st[session_id].deadline>>
    ELSE IF st[session_id].status = "Settle"
    THEN <<st[session_id].deadline + st[session_id].timeout>>
    ELSE <<>>

sg_get_seq_num(st, session_id) ==
    IF session_id \notin DOMAIN st THEN <<>> ELSE <<st[session_id].seq_num>>

(***************************************************************************)
(* pallets/multi-gomoku                                                    *)
(***************************************************************************)
mg_board_len == 228

mg_get_app_id(nonce, players) ==
    <<"m_gomoku", nonce>> \o players

mg_encode_app_state(app_state) ==
    <<app_state.seq_num>> \o app_state.board_state
        \o <<app_state.timeout, app_state.app_id>>

mg_check_boundary(x, y) == x < 15 /\ y < 15

mg_state_index(x, y) == 3 + 15 * x + y

RECURSIVE mg_count_stone_from(_, _, _, _, _, _)
mg_count_stone_from(count, board, x0, y0, xdir, ydir) ==
    IF count > 5 THEN <<>>
    ELSE LET x == (x0 + xdir * count) % 256
             y == (y0 + ydir * count) % 256
         IN  IF mg_check_boundary(x, y)
                /\ At(board, mg_state_index(x, y)) = At(board, mg_state_index(x0, y0))
             THEN mg_count_stone_from(count + 1, board, x0, y0, xdir, ydir)
             ELSE <<count>>

mg_count_stone(board, x0, y0, xdir, ydir) ==
    mg_count_stone_from(1, board, x0, y0, xdir, ydir)

mg_check_five(board, x0, y0, xdir, ydir) ==
    LET fwd == mg_count_stone(board, x0, y0, xdir, ydir)
        bwd == mg_count_stone(board, x0, y0, -xdir, -ydir)
    IN  IF fwd = <<>> \/ bwd = <<>>
        THEN [panic |-> TRUE, five |-> FALSE]
        ELSE [panic |-> FALSE, five |-> fwd[1] + bwd[1] - 1 >= 5]

RECURSIVE mg_any_five_from(_, _, _, _)
mg_any_five_from(dirs, board, x0, y0) ==
    IF dirs = <<>> THEN [panic |-> FALSE, five |-> FALSE]
    ELSE LET c == mg_check_five(board, x0, y0, dirs[1][1], dirs[1][2]) IN
         IF c.panic \/ c.five THEN c
         ELSE mg_any_five_from(Tail(dirs), board, x0, y0)

mg_any_five(board, x0, y0) ==
    mg_any_five_from(<< <<1, 0>>, <<0, 1>>, <<1, 1>>, <<1, -1>> >>, board, x0, y0)

mg_win_game(winner, gomoku_info) ==
    IF ~(0 <= winner /\ winner <= 2)
    THEN ErrInfo("invalid winner state")
    ELSE
    LET b0 == UnwrapOr(gomoku_info.gomoku_state.board_state, Zeros(mg_board_len))
        b1 == SetAt(b0, 0, winner)
    IN  IF winner # 0
        THEN OkInfo([gomoku_info EXCEPT
                        !.status = "Finalized",
                        !.gomoku_state.board_state = <<SetAt(b1, 1, 0)>>])
        ELSE OkInfo([gomoku_info EXCEPT !.gomoku_state.board_state = <<b1>>])

RECURSIVE mg_valid_signers_from(_, _, _, _)
mg_valid_signers_from(i, signatures, encoded, signers) ==
    IF i > Len(signers) THEN "Ok"
    ELSE IF i > Len(signatures) THEN "panic"   \* signatures[i] out of bounds
    ELSE IF ~verify(signatures[i], encoded, signers[i])
         THEN "Check co-sigs failed"
    ELSE mg_valid_signers_from(i + 1, signatures, encoded, signers)

mg_valid_signers(signatures, encoded, signers) ==
    mg_valid_signers_from(1, signatures, encoded, signers)

RECURSIVE mg_is_ordered_from(_, _, _)
mg_is_ordered_from(i, prev, players) ==
    IF i > Len(players) THEN "Ok"
    ELSE IF ~(prev < players[2]) THEN "player is not ascending order"
    ELSE mg_is_ordered_from(i + 1, players[i], players)

mg_is_ordered_account(players) ==
    IF Len(players) < 1 THEN "panic"   \* players[0]
    ELSE mg_is_ordered_from(2, players[1], players)

mg_intend_settle(st, n, state_proof) ==
    LET app_state == state_proof.app_state IN
    IF app_state.app_id \notin DOMAIN st
    THEN ErrInfo("MultiGomokuInfoNotExist")
    ELSE
    LET gomoku_info == st[app_state.app_id]
        encoded == mg_encode_app_state(app_state)
        signed == mg_valid_signers(state_proof.sigs, encoded, gomoku_info.players)
    IN  IF signed # "Ok" THEN ErrInfo(signed)
        ELSE IF gomoku_info.status = "Finalized"
             THEN ErrInfo("app state is finalized")
        ELSE IF ~(gomoku_info.seq_num < app_state.seq_num)
             THEN ErrInfo("invalid sequence number")
        ELSE OkInfo([gomoku_info EXCEPT !.seq_num = gomoku_info.seq_num,
                                        !.deadline = n + gomoku_info.deadline,
                                        !.status = "Settle"])

mg_update_by_state(st, n, state_proof) ==
    LET r == mg_intend_settle(st, n, state_proof)
        state == state_proof.app_state.board_state
    IN
    IF r.err # "Ok" THEN Result(r.err, st)
    ELSE IF Len(state) # 228 THEN Result("invalid state length", st)
    ELSE
    LET count == 0   \* the outer `count`; the counted value is shadowed
        w == IF At(state, 0) # 0
             THEN mg_win_game(At(state, 0), r.info)
             ELSE IF ~(CountNonZeroAfter(state, 4) % 256
                         >= r.info.gomoku_state.min_stone_offchain)
                  THEN ErrInfo("not enough offchain stones")
                  ELSE OkInfo(r.info)
    IN  IF w.err # "Ok" THEN Result(w.err, st)
        ELSE Result("Ok", [st EXCEPT ![state_proof.app_state.app_id] =
                 [w.info EXCEPT !.gomoku_state.board_state = <<state>>,
                                !.gomoku_state.stone_num = <<count>>]])

\* Faulty apply_action: the finalized check is missing, so a Finalized channel
\* is played on.  C2_FinalizedAbsorbing does not hold of it.
mg_apply_action_after_final(st, n, app_id) ==
    IF app_id \notin DOMAIN st
    THEN ErrInfo("MultiGomokuInfoNotExist")
    ELSE
    LET gomoku_info == st[app_id] IN
    IF gomoku_info.status = "Settle" /\ n > gomoku_info.deadline
    THEN OkInfo([gomoku_info EXCEPT !.seq_num = gomoku_info.seq_num + 1,
                                    !.deadline = n + gomoku_info.timeout,
                                    !.status = "Action"])
    ELSE IF gomoku_info.status \notin {"Action", "Finalized"}
    THEN ErrInfo("app not in action mode")
    ELSE OkInfo([gomoku_info EXCEPT !.seq_num = gomoku_info.seq_num + 1,
                                    !.deadline = n + gomoku_info.timeout,
                                    !.status = "Action"])

mg_apply_action(st, n, app_id) ==
    IF app_id \notin DOMAIN st
    THEN ErrInfo("MultiGomokuInfoNotExist")
    ELSE
    LET gomoku_info == st[app_id] IN
    IF gomoku_info.status = "Finalized"
    THEN ErrInfo("app state is finalized")
    ELSE IF gomoku_info.status = "Settle" /\ n > gomoku_info.deadline
    THEN OkInfo([gomoku_info EXCEPT !.seq_num = gomoku_info.seq_num + 1,
                                    !.deadline = n + gomoku_info.timeout,
                                    !.status = "Action"])
    ELSE IF gomoku_info.status # "Action"
    THEN ErrInfo("app not in action mode")
    ELSE OkInfo([gomoku_info EXCEPT !.seq_num = gomoku_info.seq_num + 1,
                                    !.deadline = n + gomoku_info.timeout,
                                    !.status = "Action"])

\* the expected mover taken as if black were always the first player
mg_expected_mover_black_first(players, turn_color, black_id) ==
    IF turn_color < 1 \/ turn_color > Len(players)
    THEN [panic |-> TRUE]
    ELSE [panic |-> FALSE, who |-> players[turn_color]]

\* the player expected to move: "panic" when the index is out of range
mg_expected_mover(players, turn_color, black_id) ==
    IF black_id = 1
    THEN IF turn_color < 1 \/ turn_color > Len(players)
         THEN [panic |-> TRUE]          \* players[turn_color - 1]
         ELSE [panic |-> FALSE, who |-> players[turn_color]]
    ELSE IF turn_color > 2 \/ 2 - turn_color >= Len(players)
         THEN [panic |-> TRUE]          \* players[2 - turn_color]
         ELSE [panic |-> FALSE, who |-> players[2 - turn_color + 1]]

mg_update_by_action(st, n, caller, app_id, action) ==
    LET r == mg_apply_action(st, n, app_id) IN
    IF r.err # "Ok" THEN Result(r.err, st)
    ELSE
    LET gomoku_info == r.info
        gomoku_state == gomoku_info.gomoku_state
    IN
    IF gomoku_state.board_state = <<>> THEN Result("EmptyBoardState", st)
    ELSE
    LET board_state == gomoku_state.board_state[1]
        turn_color == At(board_state, 1)
        black_id == At(board_state, 2)
    IN
    IF black_id \notin {1, 2} THEN Result("InvalidBlackId", st)
    ELSE
    LET mover == mg_expected_mover(gomoku_info.players, turn_color, black_id) IN
    IF mover.panic THEN Result("panic", st)
    ELSE IF caller # mover.who THEN Result("Not your turn", st)
    ELSE IF Len(action) # 2 THEN Result("invalid action length", st)
    ELSE
    LET x == action[1]
        y == action[2]
    IN
    IF ~mg_check_boundary(x, y) THEN Result("out of boundary", st)
    ELSE IF At(board_state, mg_state_index(x, y)) # 0
    THEN Result("slot is occupied", st)
    ELSE
    LET placed == SetAt(board_state, mg_state_index(x, y), turn_color % 256)
        new_stone_num == (UnwrapOr(gomoku_state.stone_num, 0) + 1) % 65536
        new_stone_num_onchain ==
            (UnwrapOr(gomoku_state.stone_num_onchain, 0) + 1) % 65536
        new_gomoku_state_1 == [gomoku_state EXCEPT
                        !.board_state = <<placed>>,
                        !.stone_num = <<new_stone_num>>,
                        !.stone_num_onchain = <<new_stone_num_onchain>>]
        new_gomoku_info_1 == [gomoku_info EXCEPT !.gomoku_state = new_gomoku_state_1]
        \* MultiGomokuInfoMap::mutate(app_id, new_gomoku_info_1): first write
        st1 == [st EXCEPT ![app_id] = new_gomoku_info_1]
        five == mg_any_five(placed, x, y)
    IN
    IF five.panic THEN Result("panic", st)
    ELSE IF five.five
    THEN LET w == mg_win_game(turn_color % 256, new_gomoku_info_1) IN
         IF w.err # "Ok" THEN Result(w.err, st1)
         ELSE Result("Ok", [st1 EXCEPT ![app_id] = w.info])
    ELSE IF new_stone_num = 225
            \/ new_stone_num_onchain % 256 > gomoku_state.max_stone_onchain
    THEN Result("Ok", [st1 EXCEPT ![app_id] =
             [new_gomoku_info_1 EXCEPT
                 !.status = "Finalized",
                 !.gomoku_state.board_state = <<SetAt(placed, 1, 0)>>]])
    ELSE Result("Ok", [st1 EXCEPT ![app_id] =
             [new_gomoku_info_1 EXCEPT
                 !.gomoku_state.board_state =
                     <<SetAt(placed, 1, IF turn_color = 1 THEN 2 ELSE 1)>>]])

mg_finalize_on_action_timeout(st, n, app_id) ==
    IF app_id \notin DOMAIN st
    THEN Result("MultiGomokuInfoNotExist", st)
    ELSE
    LET gomoku_info == st[app_id] IN
    IF gomoku_info.status = "Action" /\ ~(n > gomoku_info.deadline)
    THEN Result("deadline does not passes", st)
    ELSE IF gomoku_info.status = "Settle"
            /\ ~(n > gomoku_info.deadline + gomoku_info.timeout)
    THEN Result("while setting", st)
    ELSE IF gomoku_info.status \notin {"Action", "Settle"}
    THEN Result("Ok", st)
    ELSE IF gomoku_info.gomoku_state.board_state = <<>>
    THEN Result("EmptyBoardState", st)
    ELSE
    LET turn == At(gomoku_info.gomoku_state.board_state[1], 1) IN
    IF turn \notin {1, 2} THEN Result("Ok", st)
    ELSE LET w == mg_win_game(IF turn = 1 THEN 2 ELSE 1, gomoku_info) IN
         IF w.err # "Ok" THEN Result(w.err, st)
         ELSE Result("Ok", [st EXCEPT ![app_id] = w.info])

\* Faulty app_initiate: the existence check is missing, so a second request
\* for a registered id replaces the channel.  C13_InitiateExisting does not
\* hold of it.
mg_app_initiate_overwrite(st, initiate_request) ==
    LET app_id == mg_get_app_id(initiate_request.nonce, initiate_request.players)
        ordered == mg_is_ordered_account(initiate_request.players)
    IN
    IF ordered # "Ok" THEN Result(ordered, st)
    ELSE Result("Ok",
           [i \in DOMAIN st \cup {app_id} |->
              IF i # app_id THEN st[i]
              ELSE [players |-> initiate_request.players,
                    player_num |-> initiate_request.player_num,
                    seq_num |-> 0,
                    timeout |-> initiate_request.timeout,
                    deadline |-> 0,
                    status |-> "Idle",
                    gomoku_state |->
                       [board_state |-> <<>>,
                        stone_num |-> <<>>,
                        stone_num_onchain |-> <<>>,
                        state_key |-> <<>>,
                        min_stone_offchain |-> initiate_request.min_stone_offchain,
                        max_stone_onchain |-> initiate_request.max_stone_onchain]]])

mg_app_initiate(st, initiate_request) ==
    LET app_id == mg_get_app_id(initiate_request.nonce, initiate_request.players) IN
    IF app_id \in DOMAIN st
    THEN Result("AppId already exists", st)
    ELSE
    LET ordered == mg_is_ordered_account(initiate_request.players) IN
    IF ordered # "Ok" THEN Result(ordered, st)
    ELSE Result("Ok",
           (app_id :>
              [players |-> initiate_request.players,
               player_num |-> initiate_request.player_num,
               seq_num |-> 0,
               timeout |-> initiate_request.timeout,
               deadline |-> 0,
               status |-> "Idle",
               gomoku_state |->
                  [board_state |-> <<>>,
                   stone_num |-> <<>>,
                   stone_num_onchain |-> <<>>,
                   state_key |-> <<>>,
                   min_stone_offchain |-> initiate_request.min_stone_offchain,
                   max_stone_onchain |-> initiate_request.max_stone_onchain]])
           @@ st)

mg_is_finalized(st, app_id) ==
    IF app_id \notin DOMAIN st THEN Result("MultiGomokuInfoNotExist", st)
    ELSE IF st[app_id].status # "Finalized" THEN Result("NotFinalized", st)
    ELSE Result("Ok", st)

mg_get_outcome(st, app_id, query) ==
    IF app_id \notin DOMAIN st THEN Result("MultiGomokuInfoNotExist", st)
    ELSE IF st[app_id].gomoku_state.board_state = <<>>
    THEN Result("EmptyBoardState", st)
    ELSE IF At(st[app_id].gomoku_state.board_state[1], 0) # query
    THEN Result("FalseOutcome", st)
    ELSE Result("Ok", st)

\* key: 0 the turn byte, 1 the winner byte, 2 the whole board; "panic" is the
\* unwrap() of a board that was never stored
mg_get_state(st, app_id, key) ==
    IF app_id \notin DOMAIN st THEN <<>>
    ELSE IF st[app_id].gomoku_state.board_state = <<>> THEN "panic"
    ELSE LET board_state == st[app_id].gomoku_state.board_state[1] IN
         IF key = 1 THEN << <<At(board_state, 0)>> >>
         ELSE IF key = 0 THEN << <<At(board_state, 1)>> >>
         ELSE IF key = 2 THEN <<board_state>>
         ELSE <<>>

mg_get_status(st, app_id) ==
    IF app_id \notin DOMAIN st THEN <<>> ELSE <<st[app_id].status>>

mg_get_settle_finalized_time(st, app_id) ==
    IF app_id \notin DOMAIN st THEN <<>>
    ELSE IF st[app_id].status = "Settle" THEN <<st[app_id].deadline>>
    ELSE <<>>

\* get_action_deadline that answers the settle deadline itself while settling
mg_get_action_deadline_no_grace(st, app_id) ==
    IF app_id \notin DOMAIN st THEN <<>>
    ELSE IF st[app_id].status \in {"Action", "Settle"}
    THEN <<st[app_id].deadline>>
    ELSE <<>>

mg_get_action_deadline(st, app_id) ==
    IF app_id \notin DOMAIN st THEN <<>>
    ELSE IF st[app_id].status = "Action" THEN <<st[app_id].deadline>>
    ELSE IF st[app_id].status = "Settle"
    THEN <<st[app_id].deadline + st[app_id].timeout>>
    ELSE <<>>

mg_get_seq_num(st, app_id) ==
    IF app_id \notin DOMAIN st THEN <<>> ELSE <<st[app_id].seq_num>>

(***************************************************************************)
(* Inputs of the dispatchables.                                            *)
(***************************************************************************)
\* InitiateRequests
ss_Requests ==
    [nonce : {0}, players : {<<1, 2>>, <<1, 2, 3>>}, timeout : Timeouts]
ms_Requests ==
    [nonce : {0}, player_num : {2, 3},
     players : {<<1, 2>>, <<2, 1>>, <<1, 2, 3>>}, timeout : Timeouts]
sg_Requests ==
    [nonce : {0}, players : {<<1, 2>>, <<2, 1>>, <<1, 2, 3>>},
     timeout : Timeouts, min_stone_offchain : {2}, max_stone_onchain : {1}]
mg_Requests ==
    [nonce : {0}, player_num : {2},
     players : {<<1, 2>>, <<2, 1>>, <<1, 2, 3>>},
     timeout : Timeouts, min_stone_offchain : {2}, max_stone_onchain : {1}]

\* The channel the requests above can register (nonce 0), and one that is
\* never registered (nonce 1).
ss_Id == ss_get_app_id(0, <<1, 2>>)
ms_Id == ms_get_session_id(0, <<1, 2>>)
sg_Id == sg_get_session_id(0, <<1, 2>>)
mg_Id == mg_get_app_id(0, <<1, 2>>)
ss_UnknownId == ss_get_app_id(1, <<1, 2>>)
ms_UnknownId == ms_get_session_id(1, <<1, 2>>)
sg_UnknownId == sg_get_session_id(1, <<1, 2>>)
mg_UnknownId == mg_get_app_id(1, <<1, 2>>)

\* A board buffer: the header bytes, then the grid with `stones` = {<<index, color>>}.
Board(len, header, stones) ==
    [k \in 1..len |->
        IF k <= Len(header) THEN header[k]
        ELSE IF \E s \in stones : s[1] = k - 1
             THEN (CHOOSE s \in stones : s[1] = k - 1)[2]
             ELSE 0]

\* Positions (x, y) of boards one move away from a line of five.
\* FourInLine: (0,0)..(0,3), which (0,4) extends at its end, and four cells
\* of column 12 around (3,12), which (3,12) joins in the middle.
FourInLine ==
    {<<0, 0>>, <<0, 1>>, <<0, 2>>, <<0, 3>>,
     <<1, 12>>, <<2, 12>>, <<4, 12>>, <<5, 12>>}
\* FourDiagonal: the main diagonal around (3,12) and the anti-diagonal that
\* ends next to (0,4).
FourDiagonal ==
    {<<1, 10>>, <<2, 11>>, <<4, 13>>, <<5, 14>>,
     <<1, 3>>, <<2, 2>>, <<3, 1>>, <<4, 0>>}
\* FiveInLine: five stones already in line next to (0,4) and next to (3,12),
\* on a board whose winner byte was left 0 by its signers.
FiveInLine ==
    {<<0, 5>>, <<0, 6>>, <<0, 7>>, <<0, 8>>, <<0, 9>>,
     <<3, 7>>, <<3, 8>>, <<3, 9>>, <<3, 10>>, <<3, 11>>}
\* the grid starts after `header` bytes: index header + 15 * x + y
Stones(header, cells, color) ==
    {<<header + 15 * c[1] + c[2], color>> : c \in cells}

\* A colouring of the whole grid in which no line holds more than two
\* adjacent cells of one colour.
PatternColor(x, y) == 1 + (((x + 2 * y) \div 2) % 2)
\* The grid filled with that colouring except for the cell (0,4), whose
\* colour in the pattern is 1: 224 stones, no five in a line.
AllButOne(header) ==
    {<<header + 15 * x + y, PatternColor(x, y)>> :
        <<x, y>> \in ((0..14) \X (0..14)) \ {<<0, 4>>}}

\* The same 224 stones with (0,1) and (0,3) recoloured 1: (0,0)..(0,3) are of
\* colour 1, so that a stone of colour 1 on (0,4) fills the board and
\* completes a line of exactly five.
AllButWinning(header) ==
    {<<header + 15 * x + y,
       IF <<x, y>> \in {<<0, 1>>, <<0, 3>>} THEN 1 ELSE PatternColor(x, y)>> :
        <<x, y>> \in ((0..14) \X (0..14)) \ {<<0, 4>>}}

\* The first four cells of the grid, in the colours of the pattern.
FirstFour(header) ==
    {<<header + y, PatternColor(0, y)>> : y \in 0..3}

\* Boards a state proof may carry (single-gomoku: winner, turn, grid).
sg_BoardNames ==
    {"A", "B", "W", "V", "T", "Z", "F", "X", "L", "R", "D", "P", "G", "Q", "S"}
sg_Boards ==
    [name \in sg_BoardNames |->
        CASE name = "A" -> Board(227, <<0, 1>>, {<<3, 1>>, <<4, 2>>})
          [] name = "B" -> Board(227, <<0, 2>>, {<<3, 1>>, <<4, 2>>, <<5, 1>>})
          [] name = "W" -> Board(227, <<2, 0>>, {<<3, 1>>, <<4, 2>>})
          [] name = "V" -> Board(227, <<1, 0>>, {<<3, 1>>, <<4, 2>>})
          [] name = "T" -> Board(227, <<2, 1>>, {<<3, 1>>, <<4, 2>>})
          [] name = "Z" -> Board(227, <<0, 0>>, {<<3, 1>>, <<4, 2>>})
          [] name = "F" -> Board(227, <<0, 1>>, {<<3, 1>>})
          [] name = "X" -> Board(227, <<3, 0>>, {<<3, 1>>, <<4, 2>>})
          [] name = "L" -> Board(228, <<0, 1>>, {<<3, 1>>, <<4, 2>>})
          [] name = "R" -> Board(227, <<0, 1>>, Stones(2, FourInLine, 1))
          [] name = "D" -> Board(227, <<0, 2>>, Stones(2, FourDiagonal, 2))
          [] name = "P" -> Board(227, <<0, 1>>, Stones(2, FiveInLine, 1))
          [] name = "G" -> Board(227, <<0, 1>>, AllButOne(2))
          [] name = "Q" -> Board(227, <<0, 1>>, AllButWinning(2))
          [] name = "S" -> Board(227, <<0, 1>>, FirstFour(2))]

\* multi-gomoku: winner color, turn color, black id, grid.
mg_BoardNames ==
    {"A", "B", "W", "V", "T", "Z", "F", "X", "L", "K", "R", "D", "P", "G", "Q", "S"}
mg_Boards ==
    [name \in mg_BoardNames |->
        CASE name = "A" -> Board(228, <<0, 1, 1>>, {<<4, 1>>, <<5, 2>>})
          [] name = "B" -> Board(228, <<0, 2, 2>>, {<<4, 1>>, <<5, 2>>, <<6, 1>>})
          [] name = "W" -> Board(228, <<2, 0, 1>>, {<<4, 1>>, <<5, 2>>})
          [] name = "V" -> Board(228, <<1, 0, 1>>, {<<4, 1>>, <<5, 2>>})
          [] name = "T" -> Board(228, <<2, 1, 1>>, {<<4, 1>>, <<5, 2>>})
          [] name = "Z" -> Board(228, <<0, 0, 1>>, {<<4, 1>>, <<5, 2>>})
          [] name = "F" -> Board(228, <<0, 1, 1>>, {<<4, 1>>})
          [] name = "X" -> Board(228, <<3, 0, 1>>, {<<4, 1>>, <<5, 2>>})
          [] name = "L" -> Board(227, <<0, 1, 1>>, {<<4, 1>>, <<5, 2>>})
          [] name = "K" -> Board(228, <<0, 1, 0>>, {<<4, 1>>, <<5, 2>>})
          [] name = "R" -> Board(228, <<0, 1, 1>>, Stones(3, FourInLine, 1))
          [] name = "D" -> Board(228, <<0, 2, 1>>, Stones(3, FourDiagonal, 2))
          [] name = "P" -> Board(228, <<0, 1, 1>>, Stones(3, FiveInLine, 1))
          [] name = "G" -> Board(228, <<0, 1, 1>>, AllButOne(3))
          [] name = "Q" -> Board(228, <<0, 1, 1>>, AllButWinning(3))
          [] name = "S" -> Board(228, <<0, 1, 1>>, FirstFour(3))]

\* What a caller chooses for a state proof: the channel, the nonce field, the
\* sequence number, the payload (state byte or board) and who signs.  Every
\* payload of `payloads` is submitted with every sequence number, signed by
\* both players; the payload `base` is submitted with every sequence number
\* under every signing plan; each of `others` is submitted properly signed, and
\* so is one proof for a channel that was never initiated and one with a
\* foreign nonce.
BothSign == <<OverState(1), OverState(2)>>

ProofInputs(id, unknown, payloads, base, others) ==
    [id : {id}, nonce : {0}, seq : Seqs, payload : payloads, plan : {BothSign}]
    \cup [id : {id}, nonce : {0}, seq : Seqs, payload : {base}, plan : SigPlans]
    \cup [id : {id}, nonce : {0}, seq : {MaxSeq}, payload : others,
          plan : {BothSign}]
    \cup {[id |-> unknown, nonce |-> 0, seq |-> 1, payload |-> base,
           plan |-> BothSign],
          [id |-> id, nonce |-> 1, seq |-> MaxSeq, payload |-> base,
           plan |-> BothSign]}

ss_ProofInputs == ProofInputs(ss_Id, ss_UnknownId, StateBytes, 0, {})
ms_ProofInputs == ProofInputs(ms_Id, ms_UnknownId, StateBytes, 0, {})
sg_ProofInputs ==
    ProofInputs(sg_Id, sg_UnknownId, {"A", "B", "W", "Z"}, "A", {"F", "X", "L"})
mg_ProofInputs ==
    ProofInputs(mg_Id, mg_UnknownId, {"A", "B", "W", "Z"}, "A", {"F", "X", "L", "K"})

ss_StateProof(in) ==
    LET app_state == [nonce |-> in.nonce, seq_num |-> in.seq, state |-> in.payload,
                      timeout |-> MaxTimeout, app_id |-> in.id]
    IN  [app_state |-> app_state,
         sigs |-> MakeSigs(in.plan, ss_encode_app_state(app_state))]

ms_StateProof(in) ==
    LET app_state == [seq_num |-> in.seq, state |-> in.payload,
                      timeout |-> MaxTimeout, session_id |-> in.id]
    IN  [app_state |-> app_state,
         sigs |-> MakeSigs(in.plan, ms_encode_app_state(app_state))]

sg_StateProof(in) ==
    LET app_state == [nonce |-> in.nonce, seq_num |-> in.seq,
                      board_state |-> sg_Boards[in.payload],
                      timeout |-> MaxTimeout, session_id |-> in.id]
    IN  [app_state |-> app_state,
         sigs |-> MakeSigs(in.plan, sg_encode_app_state(app_state))]

mg_StateProof(in) ==
    LET app_state == [seq_num |-> in.seq, board_state |-> mg_Boards[in.payload],
                      timeout |-> MaxTimeout, app_id |-> in.id]
    IN  [app_state |-> app_state,
         sigs |-> MakeSigs(in.plan, mg_encode_app_state(app_state))]

\* update_by_action inputs: the channel, and for gomoku the caller and the
\* action bytes (x, y).
SessionActions == StateBytes
GomokuActions == {<<0, 4>>, <<3, 12>>, <<0, 1>>, <<15, 0>>, <<3>>}

SessionActionInputs(id, unknown) ==
    [id : {id}, action : SessionActions] \cup {[id |-> unknown, action |-> 0]}

GomokuActionInputs(id, unknown) ==
    [id : {id}, caller : Accounts, action : GomokuActions]
    \cup {[id |-> unknown, caller |-> 1, action |-> <<0, 4>>]}

ss_ActionInputs == SessionActionInputs(ss_Id, ss_UnknownId)
ms_ActionInputs == SessionActionInputs(ms_Id, ms_UnknownId)
sg_ActionInputs == GomokuActionInputs(sg_Id, sg_UnknownId)
mg_ActionInputs == GomokuActionInputs(mg_Id, mg_UnknownId)

(***************************************************************************)
(* The state machine.                                                      *)
(***************************************************************************)
EmptyStore == [i \in {} |-> 0]

NoCall == [op |-> "none", id |-> <<>>, arg |-> [none |-> TRUE],
           res |-> "none", pre |-> EmptyStore]

Init ==
    /\ variant \in Variants
    /\ now = 1
    /\ store = EmptyStore
    /\ last = NoCall

\* counters the code leaves unbounded are capped here
Capped(st) ==
    \A i \in DOMAIN st :
        st[i].seq_num <= MaxStoredSeq /\ st[i].deadline <= MaxDeadline

\* One dispatched call.  The storage becomes what the handler leaves.  `last`
\* remembers the latest call that returned Ok or wrote to storage; a call that
\* is rejected without a write changes nothing of the state.
Call(op, id, arg, r) ==
    /\ Capped(r.store)
    /\ store' = r.store
    /\ last' = IF r.res = "Ok" \/ r.store # store
               THEN [op |-> op, id |-> id, arg |-> arg, res |-> r.res, pre |-> store]
               ELSE last
    /\ UNCHANGED <<variant, now>>

AdvanceBlock ==
    /\ now < MaxBlock
    /\ now' = now + 1
    /\ last' = NoCall
    /\ UNCHANGED <<variant, store>>

ss_AppInitiate ==
    /\ variant = "single_session"
    /\ \E req \in ss_Requests :
          Call("initiate", ss_get_app_id(req.nonce, req.players), req,
               ss_app_initiate(store, req))

ss_UpdateByState ==
    /\ variant = "single_session"
    /\ \E in \in ss_ProofInputs :
          Call("update_by_state", in.id, in,
               ss_update_by_state(store, now, ss_StateProof(in)))

ss_UpdateByAction ==
    /\ variant = "single_session"
    /\ \E in \in ss_ActionInputs :
          Call("update_by_action", in.id, in,
               ss_update_by_action(store, now, in.id, in.action))

ss_FinalizeOnActionTimeout ==
    /\ variant = "single_session"
    /\ \E id \in {ss_Id, ss_UnknownId} :
          Call("finalize", id, [none |-> TRUE],
               ss_finalize_on_action_timeout(store, now, id))

ss_IsFinalized ==
    /\ variant = "single_session"
    /\ \E id \in {ss_Id, ss_UnknownId} :
          Call("is_finalized", id, [none |-> TRUE], ss_is_finalized(store, id))

ss_GetOutcome ==
    /\ variant = "single_session"
    /\ \E id \in {ss_Id, ss_UnknownId}, query \in StateBytes :
          Call("get_outcome", id, [query |-> query],
               ss_get_outcome(store, id, query))

ms_SessionInitiate ==
    /\ variant = "multi_session"
    /\ \E req \in ms_Requests :
          Call("initiate", ms_get_session_id(req.nonce, req.players), req,
               ms_session_initiate(store, req))

ms_UpdateByState ==
    /\ variant = "multi_session"
    /\ \E in \in ms_ProofInputs :
          Call("update_by_state", in.id, in,
               ms_update_by_state(store, now, ms_StateProof(in)))

ms_UpdateByAction ==
    /\ variant = "multi_session"
    /\ \E in \in ms_ActionInputs :
          Call("update_by_action", in.id, in,
               ms_update_by_action(store, now, in.id, in.action))

ms_FinalizeOnActionTimeout ==
    /\ variant = "multi_session"
    /\ \E id \in {ms_Id, ms_UnknownId} :
          Call("finalize", id, [none |-> TRUE],
               ms_finalize_on_action_timeout(store, now, id))

ms_IsFinalized ==
    /\ variant = "multi_session"
    /\ \E id \in {ms_Id, ms_UnknownId} :
          Call("is_finalized", id, [none |-> TRUE], ms_is_finalized(store, id))

ms_GetOutcome ==
    /\ variant = "multi_session"
    /\ \E id \in {ms_Id, ms_UnknownId}, query \in StateBytes :
          Call("get_outcome", id, [query |-> query],
               ms_get_outcome(store, id, query))

sg_AppInitiate ==
    /\ variant = "single_gomoku"
    /\ \E req \in sg_Requests :
          Call("initiate", sg_get_session_id(req.nonce, req.players), req,
               sg_app_initiate(store, req))

sg_UpdateByState ==
    /\ variant = "single_gomoku"
    /\ \E in \in sg_ProofInputs :
          Call("update_by_state", in.id, in,
               sg_update_by_state(store, now, sg_StateProof(in)))

sg_UpdateByAction ==
    /\ variant = "single_gomoku"
    /\ \E in \in sg_ActionInputs :
          Call("update_by_action", in.id, in,
               sg_update_by_action(store, now, in.caller, in.id, in.action))

sg_FinalizeOnActionTimeout ==
    /\ variant = "single_gomoku"
    /\ \E id \in {sg_Id, sg_UnknownId} :
          Call("finalize", id, [none |-> TRUE],
               sg_finalize_on_action_timeout(store, now, id))

sg_IsFinalized ==
    /\ variant = "single_gomoku"
    /\ \E id \in {sg_Id, sg_UnknownId} :
          Call("is_finalized", id, [none |-> TRUE], sg_is_finalized(store, id))

sg_GetOutcome ==
    /\ variant = "single_gomoku"
    /\ \E id \in {sg_Id, sg_UnknownId}, query \in StateBytes :
          Call("get_outcome", id, [query |-> query],
               sg_get_outcome(store, id, query))

mg_AppInitiate ==
    /\ variant = "multi_gomoku"
    /\ \E req \in mg_Requests :
          Call("initiate", mg_get_app_id(req.nonce, req.players), req,
               mg_app_initiate(store, req))

mg_UpdateByState ==
    /\ variant = "multi_gomoku"
    /\ \E in \in mg_ProofInputs :
          Call("update_by_state", in.id, in,
               mg_update_by_state(store, now, mg_StateProof(in)))

mg_UpdateByAction ==
    /\ variant = "multi_gomoku"
    /\ \E in \in mg_ActionInputs :
          Call("update_by_action", in.id, in,
               mg_update_by_action(store, now, in.caller, in.id, in.action))

mg_FinalizeOnActionTimeout ==
    /\ variant = "multi_gomoku"
    /\ \E id \in {mg_Id, mg_UnknownId} :
          Call("finalize", id, [none |-> TRUE],
               mg_finalize_on_action_timeout(store, now, id))

mg_IsFinalized ==
    /\ variant = "multi_gomoku"
    /\ \E id \in {mg_Id, mg_UnknownId} :
          Call("is_finalized", id, [none |-> TRUE], mg_is_finalized(store, id))

mg_GetOutcome ==
    /\ variant = "multi_gomoku"
    /\ \E id \in {mg_Id, mg_UnknownId}, query \in StateBytes :
          Call("get_outcome", id, [query |-> query],
               mg_get_outcome(store, id, query))

Next ==
    \/ AdvanceBlock
    \/ ss_AppInitiate
    \/ ss_UpdateByState
    \/ ss_UpdateByAction
    \/ ss_FinalizeOnActionTimeout
    \/ ss_IsFinalized
    \/ ss_GetOutcome
    \/ ms_SessionInitiate
    \/ ms_UpdateByState
    \/ ms_UpdateByAction
    \/ ms_FinalizeOnActionTimeout
    \/ ms_IsFinalized
    \/ ms_GetOutcome
    \/ sg_AppInitiate
    \/ sg_UpdateByState
    \/ sg_UpdateByAction
    \/ sg_FinalizeOnActionTimeout
    \/ sg_IsFinalized
    \/ sg_GetOutcome
    \/ mg_AppInitiate
    \/ mg_UpdateByState
    \/ mg_UpdateByAction
    \/ mg_FinalizeOnActionTimeout
    \/ mg_IsFinalized
    \/ mg_GetOutcome

Spec == Init /\ [][Next]_vars

(***************************************************************************)
(* Properties.  The behaviour's channel and the calls on it at the current *)
(* state: submit_state is update_by_state, apply_action is                 *)
(* update_by_action, finalize_on_timeout is finalize_on_action_timeout.    *)
(***************************************************************************)
Chan ==
    CASE variant = "single_session" -> ss_Id
      [] variant = "multi_session" -> ms_Id
      [] variant = "single_gomoku" -> sg_Id
      [] variant = "multi_gomoku" -> mg_Id

Registered == Chan \in DOMAIN store
Info == store[Chan]

Proofs ==
    CASE variant = "single_session" -> {in \in ss_ProofInputs : in.id = ss_Id}
      [] variant = "multi_session" -> {in \in ms_ProofInputs : in.id = ms_Id}
      [] variant = "single_gomoku" -> {in \in sg_ProofInputs : in.id = sg_Id}
      [] variant = "multi_gomoku" -> {in \in mg_ProofInputs : in.id = mg_Id}

Actions ==
    CASE variant = "single_session" -> {in \in ss_ActionInputs : in.id = ss_Id}
      [] variant = "multi_session" -> {in \in ms_ActionInputs : in.id = ms_Id}
      [] variant = "single_gomoku" -> {in \in sg_ActionInputs : in.id = sg_Id}
      [] variant = "multi_gomoku" -> {in \in mg_ActionInputs : in.id = mg_Id}

SubmitStateOn(st, in) ==
    CASE variant = "single_session" -> ss_update_by_state(st, now, ss_StateProof(in))
      [] variant = "multi_session" -> ms_update_by_state(st, now, ms_StateProof(in))
      [] variant = "single_gomoku" -> sg_update_by_state(st, now, sg_StateProof(in))
      [] variant = "multi_gomoku" -> mg_update_by_state(st, now, mg_StateProof(in))

SubmitState(in) == SubmitStateOn(store, in)

ApplyAction(in) ==
    CASE variant = "single_session" ->
            ss_update_by_action(store, now, in.id, in.action)
      [] variant = "multi_session" ->
            ms_update_by_action(store, now, in.id, in.action)
      [] variant = "single_gomoku" ->
            sg_update_by_action(store, now, in.caller, in.id, in.action)
      [] variant = "multi_gomoku" ->
            mg_update_by_action(store, now, in.caller, in.id, in.action)

FinalizeOnTimeout ==
    CASE variant = "single_session" -> ss_finalize_on_action_timeout(store, now, Chan)
      [] variant = "multi_session" -> ms_finalize_on_action_timeout(store, now, Chan)
      [] variant = "single_gomoku" -> sg_finalize_on_action_timeout(store, now, Chan)
      [] variant = "multi_gomoku" -> mg_finalize_on_action_timeout(store, now, Chan)

\* The latest recorded call was this operation on the channel and returned Ok.
Accepted(op) ==
    last.op = op /\ last.res = "Ok" /\ last.id = Chan /\ Chan \in DOMAIN last.pre

Before == last.pre[Chan]

\* The payload of a proof ends the game: a terminal state byte (1 or 2), or a
\* board whose winner byte is set.
Terminal(in) ==
    CASE variant = "single_session" -> in.payload \in {1, 2}
      [] variant = "multi_session" -> in.payload \in {1, 2}
      [] variant = "single_gomoku" -> sg_Boards[in.payload][1] # 0
      [] variant = "multi_gomoku" -> mg_Boards[in.payload][1] # 0

\* Every registered player has signed the submitted state: at the player's own
\* position, or for the two-party single-session channel in either order; a
\* multi-session proof carries exactly player_num signatures.
SignedAt(plan, i, player) == i <= Len(plan) /\ plan[i] = OverState(player)

ValidlySigned(in) ==
    LET players == Info.players IN
    /\ \/ \A i \in 1..Len(players) : SignedAt(in.plan, i, players[i])
       \/ /\ variant = "single_session"
          /\ Len(players) = 2
          /\ SignedAt(in.plan, 1, players[2])
          /\ SignedAt(in.plan, 2, players[1])
    /\ variant = "multi_session" => Len(in.plan) = Info.player_num

\* Nothing checked before the sequence number fails: the proof is validly
\* signed, the channel is not finalized and the nonce is the channel's.
PassesEarlierChecks(in) ==
    ValidlySigned(in) /\ Info.status # "Finalized" /\ in.nonce = 0

StaleError == "invalid sequence number"
FinalizedError == "app state is finalized"
SignatureError == "Check co-sigs failed"
NotInActionModeError == "app not in action mode"

\* C1: in every variant an accepted submit_state or apply_action leaves the
\* channel's seq_num strictly greater than before the call, and a state proof
\* whose seq_num is at most the stored seq_num is rejected without a write,
\* with the stale-sequence error when no earlier check fails.
C1_MonotonicSequence ==
    /\ (Accepted("update_by_state") \/ Accepted("update_by_action"))
          => Info.seq_num > Before.seq_num
    /\ Registered =>
          \A in \in Proofs :
             in.seq <= Info.seq_num =>
                LET r == SubmitState(in) IN
                /\ r.res # "Ok"
                /\ r.store = store
                /\ PassesEarlierChecks(in) => r.res = StaleError

\* C2: once the channel is Finalized, every validly signed submit_state and
\* every apply_action fails with the finalized error, and no operation changes
\* any field of the stored channel.
C2_FinalizedAbsorbing ==
    /\ (Registered /\ Info.status = "Finalized") =>
          /\ \A in \in Proofs :
                LET r == SubmitState(in) IN
                /\ r.store = store
                /\ ValidlySigned(in) => r.res = FinalizedError
          /\ \A in \in Actions :
                ApplyAction(in) = Result(FinalizedError, store)
          /\ FinalizeOnTimeout.store = store
    /\ (last.op # "none" /\ Chan \in DOMAIN last.pre
            /\ Before.status = "Finalized") => Info = Before

\* C2 witness: the channel is Finalized, a later call has run on it, and a
\* validly signed proof with a fresh sequence number is refused.
C2_Witness ==
    /\ Registered /\ Info.status = "Finalized"
    /\ last.op # "none" /\ Chan \in DOMAIN last.pre /\ Before.status = "Finalized"
    /\ \E in \in Proofs :
          /\ ValidlySigned(in) /\ in.seq > Info.seq_num
          /\ SubmitState(in).res = FinalizedError

\* Some registered player has no verifying signature over the submitted state
\* anywhere in the proof.
MissingSignature(in) ==
    \E k \in 1..Len(Info.players) :
        \A i \in 1..Len(in.plan) : in.plan[i] # OverState(Info.players[k])

QuorumErrors == {SignatureError, "invalid number of players"}

\* C3: a state proof in which a registered player's signature is missing or
\* does not verify is rejected with the signature error whatever its sequence
\* number, and the stored channel is unchanged.
C3_QuorumCompleteness ==
    Registered =>
       \A in \in Proofs :
          MissingSignature(in) =>
             LET r == SubmitState(in) IN
             r.res \in QuorumErrors /\ r.store = store

\* C4: in every variant an accepted submit_state carrying a non-terminal
\* state, run at block `now` on a channel in Idle or Settle, sets seq_num to
\* the proof's seq_num, deadline to now + timeout and status to Settle.
C4_SubmitStateEffect ==
    (Accepted("update_by_state") /\ ~Terminal(last.arg)
         /\ Before.status \in {"Idle", "Settle"})
      => /\ Info.seq_num = last.arg.seq
         /\ Info.deadline = now + Info.timeout
         /\ Info.status = "Settle"

\* A proof the channel would accept now: validly signed, non-terminal, fresh.
Fresh(in) ==
    /\ ValidlySigned(in) /\ in.nonce = 0 /\ ~Terminal(in)
    /\ in.seq > Info.seq_num
    /\ SubmitState(in).res = "Ok"

AppStateOf(info) ==
    CASE variant = "single_session" -> info.state
      [] variant = "multi_session" -> info.state
      [] variant = "single_gomoku" -> info.gomoku_state.board_state
      [] variant = "multi_gomoku" -> info.gomoku_state.board_state

PayloadOf(in) ==
    CASE variant = "single_session" -> in.payload
      [] variant = "multi_session" -> in.payload
      [] variant = "single_gomoku" -> <<sg_Boards[in.payload]>>
      [] variant = "multi_gomoku" -> <<mg_Boards[in.payload]>>

\* C5: for two validly signed non-terminal proofs p and q of the channel with
\* p.seq < q.seq, submitted in either order while the channel is in Idle or
\* Settle, the stored application state after both calls is q's; after q has
\* been accepted p is not accepted.
C5_HighestSequenceWins ==
    (Registered /\ Info.status \in {"Idle", "Settle"}) =>
       \A q \in Proofs :
          Fresh(q) =>
             \A p \in Proofs :
                (ValidlySigned(p) /\ p.nonce = 0 /\ ~Terminal(p) /\ p.seq < q.seq) =>
                   LET afterQ == SubmitState(q).store
                       qThenP == SubmitStateOn(afterQ, p)
                       afterP == SubmitState(p).store
                       pThenQ == SubmitStateOn(afterP, q)
                   IN  /\ qThenP.res # "Ok"
                       /\ AppStateOf(qThenP.store[Chan]) = PayloadOf(q)
                       /\ pThenQ.res = "Ok"
                       /\ AppStateOf(pThenQ.store[Chan]) = PayloadOf(q)

\* C6: apply_action on a channel that is Idle, or Settle with the block height
\* not beyond the deadline, fails with the not-in-action-mode error and leaves
\* the stored channel unchanged.
C6_NotInActionMode ==
    (Registered /\ (\/ Info.status = "Idle"
                    \/ Info.status = "Settle" /\ now <= Info.deadline)) =>
       \A in \in Actions :
          ApplyAction(in) = Result(NotInActionModeError, store)

\* C6 witness: a channel in Settle, the deadline not yet passed, on which an
\* action is refused.
C6_Witness ==
    /\ Registered /\ Info.status = "Settle" /\ now <= Info.deadline
    /\ Accepted("update_by_state")
    /\ \E in \in Actions : ApplyAction(in).res = NotInActionModeError

\* The accepted action ended the game: a terminal action code (1 or 2) of a
\* session app, or a gomoku move after which no player is to move.
TerminalAction ==
    CASE variant = "single_session" -> last.arg.action \in {1, 2}
      [] variant = "multi_session" -> last.arg.action \in {1, 2}
      [] variant = "single_gomoku" -> At(Info.gomoku_state.board_state[1], 1) = 0
      [] variant = "multi_gomoku" -> At(Info.gomoku_state.board_state[1], 1) = 0

Stepped == last.op # "none" /\ Registered /\ Chan \in DOMAIN last.pre

EscalationSteps ==
    { <<"Idle", "Settle">>, <<"Settle", "Settle">>, <<"Settle", "Action">>,
      <<"Action", "Action">>, <<"Idle", "Finalized">>,
      <<"Settle", "Finalized">>, <<"Action", "Finalized">> }

\* C8 as stated: the status changes only along Idle->Settle, Settle->Settle,
\* Settle->Action, Action->Action and non-Finalized->Finalized; a channel that
\* was in Action is never in Settle or Idle afterwards.
C8_IrreversibleEscalation ==
    Stepped =>
       /\ Info.status # Before.status =>
             <<Before.status, Info.status>> \in EscalationSteps
       /\ Before.status = "Action" => Info.status \in {"Action", "Finalized"}

\* C8 amended: the status changes only along the steps above and along
\* Action->Settle, which only an accepted submit_state with a sequence number
\* above the stored one takes; Settle->Action is taken only by an accepted
\* apply_action; a channel is created Idle, never returns to Idle and never
\* leaves Finalized.
C8_StatusSteps ==
    /\ Stepped =>
          /\ Info.status # Before.status =>
                <<Before.status, Info.status>>
                    \in EscalationSteps \cup {<<"Action", "Settle">>}
          /\ (Before.status = "Action" /\ Info.status = "Settle") =>
                /\ Accepted("update_by_state")
                /\ last.arg.seq > Before.seq_num
          /\ (Before.status = "Settle" /\ Info.status = "Action") =>
                Accepted("update_by_action")
    /\ (last.op = "initiate" /\ last.res = "Ok") =>
          Registered /\ Info.status = "Idle"

\* C8 witness: in the single-session pallet an accepted state proof has taken
\* a channel in Action back to Settle.
C8_Witness ==
    /\ variant = "single_session"
    /\ Accepted("update_by_state")
    /\ Before.status = "Action"
    /\ Info.status = "Settle"

\* The timeout that finalize_on_timeout waits for has passed.
TimeoutPassed ==
    \/ Info.status = "Action" /\ now > Info.deadline
    \/ Info.status = "Settle" /\ now > Info.deadline + Info.timeout

TimeoutPending ==
    \/ Info.status = "Action" /\ now <= Info.deadline
    \/ Info.status = "Settle" /\ now <= Info.deadline + Info.timeout

\* C9: in every variant finalize_on_timeout called in Action with
\* now > deadline, or in Settle with now > deadline + timeout, leaves the
\* channel Finalized.
C9_FinalizeOnTimeout ==
    (Registered /\ TimeoutPassed) =>
       LET r == FinalizeOnTimeout IN
       r.res = "Ok" /\ r.store[Chan].status = "Finalized"

DeadlineErrors ==
    {"deadline no passes", "deadline does not passes", "while setting",
     "while settling"}

ActionDeadlineError ==
    CASE variant = "single_session" -> "deadline no passes"
      [] variant = "multi_session" -> "deadline does not passes"
      [] variant = "single_gomoku" -> "deadline no passes"
      [] variant = "multi_gomoku" -> "deadline does not passes"

SettleDeadlineError ==
    CASE variant = "single_session" -> "while setting"
      [] variant = "multi_session" -> "while setting"
      [] variant = "single_gomoku" -> "while settling"
      [] variant = "multi_gomoku" -> "while setting"

\* C11: finalize_on_timeout called in Action with now <= deadline, or in
\* Settle with now <= deadline + timeout, fails with the pallet's
\* deadline-not-passed error for that status and writes nothing.
C11_DeadlineNotPassed ==
    Registered =>
       /\ (Info.status = "Action" /\ now <= Info.deadline)
             => FinalizeOnTimeout = Result(ActionDeadlineError, store)
       /\ (Info.status = "Settle" /\ now <= Info.deadline + Info.timeout)
             => FinalizeOnTimeout = Result(SettleDeadlineError, store)

\* C11 witness: a channel in Settle, past its deadline but not yet past
\* deadline + timeout, on which finalize_on_timeout fails.
C11_Witness ==
    /\ Registered /\ Info.status = "Settle"
    /\ now > Info.deadline /\ now <= Info.deadline + Info.timeout
    /\ FinalizeOnTimeout.res = SettleDeadlineError

\* C12: finalize_on_timeout on a registered channel whose status is Idle or
\* Finalized returns Ok and leaves the stored channel as it was, at every
\* block height.
C12_FinalizeIdleOrFinalized ==
    /\ (Registered /\ Info.status \in {"Idle", "Finalized"})
          => FinalizeOnTimeout = Result("Ok", store)
    /\ (last.op = "finalize" /\ last.id = Chan /\ Chan \in DOMAIN last.pre
            /\ Before.status \in {"Idle", "Finalized"})
          => last.res = "Ok" /\ store = last.pre

\* C12 witness: finalize_on_timeout has returned Ok on an Idle channel at a
\* block after the one of its creation.
C12_Witness ==
    /\ Accepted("finalize")
    /\ Before.status = "Idle"
    /\ now > 1
    /\ store = last.pre

\* The initiate call of the behaviour's pallet, its requests and the id a
\* request derives.
InitiateRequests ==
    CASE variant = "single_session" -> ss_Requests
      [] variant = "multi_session" -> ms_Requests
      [] variant = "single_gomoku" -> sg_Requests
      [] variant = "multi_gomoku" -> mg_Requests

RequestId(req) ==
    CASE variant = "single_session" -> ss_get_app_id(req.nonce, req.players)
      [] variant = "multi_session" -> ms_get_session_id(req.nonce, req.players)
      [] variant = "single_gomoku" -> sg_get_session_id(req.nonce, req.players)
      [] variant = "multi_gomoku" -> mg_get_app_id(req.nonce, req.players)

InitiateOn(st, req) ==
    CASE variant = "single_session" -> ss_app_initiate(st, req)
      [] variant = "multi_session" -> ms_session_initiate(st, req)
      [] variant = "single_gomoku" -> sg_app_initiate(st, req)
      [] variant = "multi_gomoku" -> mg_app_initiate(st, req)

AlreadyExistsError ==
    CASE variant = "single_session" -> "AppId alreads exists"
      [] variant = "multi_session" -> "session_id is used"
      [] variant = "single_gomoku" -> "AppId already exists"
      [] variant = "multi_gomoku" -> "AppId already exists"

\* C13: initiate with a request whose derived id is already registered fails
\* with the already-exists error and leaves the stored channel unchanged,
\* whatever the channel's status.
C13_InitiateExisting ==
    \A req \in InitiateRequests :
       RequestId(req) \in DOMAIN store
          => InitiateOn(store, req) = Result(AlreadyExistsError, store)

\* C13 witness: a channel that has advanced to Action, and a request for the
\* same id with another timeout, which is refused.
C13_Witness ==
    /\ Registered /\ Info.status = "Action" /\ Info.seq_num > 0
    /\ \E req \in InitiateRequests :
          /\ RequestId(req) = Chan
          /\ req.timeout # Info.timeout
          /\ InitiateOn(store, req).res = AlreadyExistsError

(***************************************************************************)
(* The registry: behaviours made of initiate calls only, over requests     *)
(* with two nonces and participant lists of every shape, so that several   *)
(* channels are registered side by side.                                   *)
(***************************************************************************)
MaxChannels == 2

RegPlayers ==
    {<<1, 2>>, <<2, 1>>, <<1, 2, 3>>, <<1, 3, 2>>, <<2, 2>>, <<1>>, <<2, 3>>}

ss_RegRequests == [nonce : {0, 1}, players : RegPlayers, timeout : {1}]
ms_RegRequests ==
    [nonce : {0, 1}, player_num : {2}, players : RegPlayers, timeout : {1}]
sg_RegRequests ==
    [nonce : {0, 1}, players : RegPlayers, timeout : {1},
     min_stone_offchain : {2}, max_stone_onchain : {1}]
mg_RegRequests ==
    [nonce : {0, 1}, player_num : {2}, players : RegPlayers, timeout : {1},
     min_stone_offchain : {2}, max_stone_onchain : {1}]

\* One initiate call; an accepted one is recorded with the id it registered.
RegCall(req, r) ==
    /\ Cardinality(DOMAIN r.store) <= MaxChannels
    /\ store' = r.store
    /\ last' = IF r.res = "Ok"
               THEN [op |-> "initiate",
                     id |-> CHOOSE i \in DOMAIN r.store : i \notin DOMAIN store,
                     arg |-> req, res |-> r.res, pre |-> store]
               ELSE last
    /\ UNCHANGED <<variant, now>>

ss_RegInitiate ==
    /\ variant = "single_session"
    /\ \E req \in ss_RegRequests : RegCall(req, ss_app_initiate(store, req))

ms_RegInitiate ==
    /\ variant = "multi_session"
    /\ \E req \in ms_RegRequests : RegCall(req, ms_session_initiate(store, req))

sg_RegInitiate ==
    /\ variant = "single_gomoku"
    /\ \E req \in sg_RegRequests : RegCall(req, sg_app_initiate(store, req))

mg_RegInitiate ==
    /\ variant = "multi_gomoku"
    /\ \E req \in mg_RegRequests : RegCall(req, mg_app_initiate(store, req))

RegNext ==
    \/ ss_RegInitiate
    \/ ms_RegInitiate
    \/ sg_RegInitiate
    \/ mg_RegInitiate

SpecRegistry == Init /\ [][RegNext]_vars

RegRequests ==
    CASE variant = "single_session" -> ss_RegRequests
      [] variant = "multi_session" -> ms_RegRequests
      [] variant = "single_gomoku" -> sg_RegRequests
      [] variant = "multi_gomoku" -> mg_RegRequests

StrictlyAscending(players) ==
    \A i \in 1..(Len(players) - 1) : players[i] < players[i + 1]

\* The errors a pallet returns for a participant list it does not take: the
\* ordering error, and single-gomoku's length error for a list not of two.
OrderingErrors ==
    {"player is not ascending order", "players is not asscending order",
     "invalid player length"}

\* C14: in every variant initiate with a participant list that is not in
\* strictly ascending order fails with the ordering error and registers no
\* channel: no stored channel has such a list, and a refused request of this
\* kind is refused with the ordering error (or because its id is taken) and
\* writes nothing.
C14_OrderedParticipants ==
    /\ \A i \in DOMAIN store : StrictlyAscending(store[i].players)
    /\ \A req \in RegRequests :
          (~StrictlyAscending(req.players) /\ Len(req.players) >= 2) =>
             LET r == InitiateOn(store, req) IN
             r.res # "Ok" =>
                /\ r.store = store
                /\ r.res \in OrderingErrors \cup {AlreadyExistsError}

ParticipantSet(info) == {info.players[i] : i \in 1..Len(info.players)}

\* the nonce is the second component of the id the channel is stored under
NonceOf(id) == id[2]

\* C15: no two distinct stored channels of a pallet have the same nonce and
\* the same set of participants.
C15_OneChannelPerParticipants ==
    \A i \in DOMAIN store :
       \A j \in DOMAIN store :
          (i # j /\ NonceOf(i) = NonceOf(j))
             => ParticipantSet(store[i]) # ParticipantSet(store[j])

\* Every channel id a call of the behaviour's pallet may name, and the calls
\* that take an id.
Ids ==
    CASE variant = "single_session" -> {ss_Id, ss_UnknownId}
      [] variant = "multi_session" -> {ms_Id, ms_UnknownId}
      [] variant = "single_gomoku" -> {sg_Id, sg_UnknownId}
      [] variant = "multi_gomoku" -> {mg_Id, mg_UnknownId}

AllProofs ==
    CASE variant = "single_session" -> ss_ProofInputs
      [] variant = "multi_session" -> ms_ProofInputs
      [] variant = "single_gomoku" -> sg_ProofInputs
      [] variant = "multi_gomoku" -> mg_ProofInputs

AllActions ==
    CASE variant = "single_session" -> ss_ActionInputs
      [] variant = "multi_session" -> ms_ActionInputs
      [] variant = "single_gomoku" -> sg_ActionInputs
      [] variant = "multi_gomoku" -> mg_ActionInputs

FinalizeOnTimeoutOf(id) ==
    CASE variant = "single_session" -> ss_finalize_on_action_timeout(store, now, id)
      [] variant = "multi_session" -> ms_finalize_on_action_timeout(store, now, id)
      [] variant = "single_gomoku" -> sg_finalize_on_action_timeout(store, now, id)
      [] variant = "multi_gomoku" -> mg_finalize_on_action_timeout(store, now, id)

IsFinalized(id) ==
    CASE variant = "single_session" -> ss_is_finalized(store, id)
      [] variant = "multi_session" -> ms_is_finalized(store, id)
      [] variant = "single_gomoku" -> sg_is_finalized(store, id)
      [] variant = "multi_gomoku" -> mg_is_finalized(store, id)

GetOutcome(id, query) ==
    CASE variant = "single_session" -> ss_get_outcome(store, id, query)
      [] variant = "multi_session" -> ms_get_outcome(store, id, query)
      [] variant = "single_gomoku" -> sg_get_outcome(store, id, query)
      [] variant = "multi_gomoku" -> mg_get_outcome(store, id, query)

\* What the read accessors return for an id: status, seq_num, settle
\* deadline, action deadline, and the state (for gomoku under every key).
ReadAccessors(id) ==
    CASE variant = "single_session" ->
            {ss_get_status(store, id), ss_get_seq_num(store, id),
             ss_get_settle_finalized_time(store, id),
             ss_get_action_deadline(store, id), ss_get_state(store, id)}
      [] variant = "multi_session" ->
            {ms_get_status(store, id), ms_get_seq_num(store, id),
             ms_get_settle_finalized_time(store, id),
             ms_get_action_deadline(store, id), ms_get_state(store, id)}
      [] variant = "single_gomoku" ->
            {sg_get_status(store, id), sg_get_seq_num(store, id),
             sg_get_settle_finalized_time(store, id),
             sg_get_action_deadline(store, id)}
            \cup {sg_get_state(store, id, key) : key \in 0..3}
      [] variant = "multi_gomoku" ->
            {mg_get_status(store, id), mg_get_seq_num(store, id),
             mg_get_settle_finalized_time(store, id),
             mg_get_action_deadline(store, id)}
            \cup {mg_get_state(store, id, key) : key \in 0..3}

NotFoundError ==
    CASE variant = "single_session" -> "AppInfoNotExist"
      [] variant = "multi_session" -> "SessionInfoNotExist"
      [] variant = "single_gomoku" -> "SingleGomokuInfoNotExist"
      [] variant = "multi_gomoku" -> "MultiGomokuInfoNotExist"

\* C16: for an id with no registered channel, submit_state, apply_action,
\* finalize_on_timeout, is_finalized and get_outcome fail with the not-found
\* error and write nothing, and every read accessor returns None.
C16_UnknownChannel ==
    \A id \in Ids :
       id \notin DOMAIN store =>
          /\ \A in \in AllProofs :
                in.id = id => SubmitState(in) = Result(NotFoundError, store)
          /\ \A in \in AllActions :
                in.id = id => ApplyAction(in) = Result(NotFoundError, store)
          /\ FinalizeOnTimeoutOf(id) = Result(NotFoundError, store)
          /\ IsFinalized(id) = Result(NotFoundError, store)
          /\ \A query \in StateBytes :
                GetOutcome(id, query) = Result(NotFoundError, store)
          /\ ReadAccessors(id) = {<<>>}

\* C16 witness: beside a registered channel that has been settled, an id that
\* was never initiated, for which the calls fail and the accessors are None.
C16_Witness ==
    /\ Registered /\ Info.seq_num > 0
    /\ \E id \in Ids :
          /\ id \notin DOMAIN store
          /\ IsFinalized(id).res = NotFoundError
          /\ \E in \in AllProofs : in.id = id /\ SubmitState(in).res = NotFoundError
          /\ ReadAccessors(id) = {<<>>}

(***************************************************************************)
(* C17: all-or-nothing mutation.  Whenever initiate, submit_state          *)
(* (update_by_state), apply_action (update_by_action) or                   *)
(* finalize_on_timeout does not return Ok, the stored state of every       *)
(* channel is exactly what it was before the call: no handler writes and   *)
(* then fails.  Every request, proof, action and channel id is dispatched  *)
(* from every reachable state, and `last` records each call that returned  *)
(* Ok or changed storage: a recorded call that did not return Ok has left  *)
(* the storage as it was.                                                  *)
(* For initiate and finalize_on_timeout the same is stated of every input  *)
(* directly.                                                               *)
(***************************************************************************)
Rejected(r) == r.res # "Ok"
NothingWritten(r) == Rejected(r) => r.store = store

C17_AllOrNothing ==
    /\ (last.op # "none" /\ Rejected(last)) => store = last.pre
    /\ \A req \in InitiateRequests : NothingWritten(InitiateOn(store, req))
    /\ \A id \in Ids : NothingWritten(FinalizeOnTimeoutOf(id))

\* a channel in Action mode on which each of the four operations has an
\* input that is rejected
C17_Witness ==
    /\ Registered
    /\ Info.status = "Action"
    /\ \E req \in InitiateRequests : Rejected(InitiateOn(store, req))
    /\ \E in \in Proofs : Rejected(SubmitState(in))
    /\ \E in \in Actions : Rejected(ApplyAction(in))
    /\ Rejected(FinalizeOnTimeout)

(***************************************************************************)
(* The gomoku game specification: a gomoku channel is initiated with one   *)
(* of several caps on on-chain stones, settled with boards that are one    *)
(* move away from a line of five, that already hold a line of five, or     *)
(* that have one empty cell left, and then played on chain.                *)
(***************************************************************************)
MaxGameSeq == 2

GameCaps == {0, 1, 255}
GameBoards == {"A", "B", "T", "R", "D", "P", "G", "Q"}
GameMins == {2, 8}
GameMoves == {<<0, 4>>, <<3, 12>>}
GamePlayers == {1, 2, 3}

sg_GameRequests ==
    [nonce : {0}, players : {<<1, 2>>}, timeout : {1},
     min_stone_offchain : GameMins, max_stone_onchain : GameCaps]
mg_GameRequests ==
    [nonce : {0}, player_num : {2}, players : {<<1, 2>>}, timeout : {1},
     min_stone_offchain : GameMins, max_stone_onchain : GameCaps]

sg_GameProofs ==
    [id : {sg_Id}, nonce : {0}, seq : 1..MaxGameSeq, payload : GameBoards,
     plan : {BothSign}]
mg_GameProofs ==
    [id : {mg_Id}, nonce : {0}, seq : 1..MaxGameSeq, payload : GameBoards,
     plan : {BothSign}]

sg_GameActions == [id : {sg_Id}, caller : GamePlayers, action : GameMoves]
mg_GameActions == [id : {mg_Id}, caller : GamePlayers, action : GameMoves]

sg_GameInitiate ==
    /\ variant = "single_gomoku"
    /\ \E req \in sg_GameRequests :
          Call("initiate", sg_get_session_id(req.nonce, req.players), req,
               sg_app_initiate(store, req))

sg_GameSettle ==
    /\ variant = "single_gomoku"
    /\ \E in \in sg_GameProofs :
          Call("update_by_state", in.id, in,
               sg_update_by_state(store, now, sg_StateProof(in)))

sg_GameMove ==
    /\ variant = "single_gomoku"
    /\ \E in \in sg_GameActions :
          Call("update_by_action", in.id, in,
               sg_update_by_action(store, now, in.caller, in.id, in.action))

mg_GameInitiate ==
    /\ variant = "multi_gomoku"
    /\ \E req \in mg_GameRequests :
          Call("initiate", mg_get_app_id(req.nonce, req.players), req,
               mg_app_initiate(store, req))

mg_GameSettle ==
    /\ variant = "multi_gomoku"
    /\ \E in \in mg_GameProofs :
          Call("update_by_state", in.id, in,
               mg_update_by_state(store, now, mg_StateProof(in)))

mg_GameMove ==
    /\ variant = "multi_gomoku"
    /\ \E in \in mg_GameActions :
          Call("update_by_action", in.id, in,
               mg_update_by_action(store, now, in.caller, in.id, in.action))

GameNext ==
    \/ AdvanceBlock
    \/ sg_GameInitiate
    \/ sg_GameSettle
    \/ sg_GameMove
    \/ mg_GameInitiate
    \/ mg_GameSettle
    \/ mg_GameMove

GameInit ==
    /\ variant \in {"single_gomoku", "multi_gomoku"}
    /\ now = 1
    /\ store = EmptyStore
    /\ last = NoCall

SpecGame == GameInit /\ [][GameNext]_vars

(***************************************************************************)
(* The reference rule of the game, and what a legal move is.               *)
(***************************************************************************)
Gomoku == variant \in {"single_gomoku", "multi_gomoku"}

\* bytes before the grid: winner, turn (, black id)
HeaderLen == IF variant = "single_gomoku" THEN 2 ELSE 3

GameActions ==
    CASE variant = "single_gomoku" -> sg_GameActions
      [] variant = "multi_gomoku" -> mg_GameActions
      [] OTHER -> {}

GameProofs ==
    CASE variant = "single_gomoku" -> sg_GameProofs
      [] variant = "multi_gomoku" -> mg_GameProofs
      [] OTHER -> {}

HasBoard(info) == info.gomoku_state.board_state # <<>>
BoardOf(info) == info.gomoku_state.board_state[1]
WinnerByte(info) == At(BoardOf(info), 0)
TurnByte(info) == At(BoardOf(info), 1)
Cell(board, x, y) == At(board, HeaderLen + 15 * x + y)
GridStones(board) == CountNonZeroAfter(board, HeaderLen)

\* the player whose colour is to move
MoverOf(info) ==
    IF variant = "single_gomoku" THEN info.players[TurnByte(info)]
    ELSE IF At(BoardOf(info), 2) = 1 THEN info.players[TurnByte(info)]
    ELSE info.players[3 - TurnByte(info)]

\* the channel takes on-chain moves: in Action mode, or in Settle mode once
\* the settle deadline has passed
TakesMoves(info) ==
    \/ info.status = "Action"
    \/ info.status = "Settle" /\ now > info.deadline

\* a legal move: the channel takes moves, it is the caller's turn, and the
\* action names an empty cell of the grid
LegalMove(in) ==
    /\ Registered
    /\ in.id = Chan
    /\ TakesMoves(Info)
    /\ HasBoard(Info)
    /\ TurnByte(Info) \in {1, 2}
    /\ variant = "multi_gomoku" => At(BoardOf(Info), 2) \in {1, 2}
    /\ in.caller = MoverOf(Info)
    /\ Len(in.action) = 2
    /\ in.action[1] \in 0..14
    /\ in.action[2] \in 0..14
    /\ Cell(BoardOf(Info), in.action[1], in.action[2]) = 0

\* the board after the mover's stone is placed
Placed(in) ==
    SetAt(BoardOf(Info), HeaderLen + 15 * in.action[1] + in.action[2],
          TurnByte(Info))

\* cells of colour c that follow (x, y) without a gap in direction (dx, dy)
RECURSIVE Reach(_, _, _, _, _, _)
Reach(board, c, x, y, dx, dy) ==
    IF /\ x + dx \in 0..14
       /\ y + dy \in 0..14
       /\ Cell(board, x + dx, y + dy) = c
    THEN 1 + Reach(board, c, x + dx, y + dy, dx, dy)
    ELSE 0

Axes == {<<1, 0>>, <<0, 1>>, <<1, 1>>, <<1, -1>>}

RunThrough(board, x, y, d) ==
    1 + Reach(board, Cell(board, x, y), x, y, d[1], d[2])
      + Reach(board, Cell(board, x, y), x, y, -d[1], -d[2])

\* a contiguous run of at least five cells of the colour at (x, y),
\* containing (x, y), along one of the four axes
FiveThrough(board, x, y) ==
    \E d \in Axes : RunThrough(board, x, y, d) >= 5

WonBy(info, color) ==
    /\ info.status = "Finalized"
    /\ HasBoard(info)
    /\ WinnerByte(info) = color
    /\ TurnByte(info) = 0

Drawn(info) ==
    /\ info.status = "Finalized"
    /\ HasBoard(info)
    /\ WinnerByte(info) = 0
    /\ TurnByte(info) = 0

(***************************************************************************)
(* C18: win detection matches the reference rule for every board and       *)
(* every legal move.  A legal apply_action at (x, y) is accepted, and it   *)
(* finalizes the channel with winner byte = the mover's colour and turn    *)
(* byte 0 if and only if, once the stone is placed, a contiguous run of at *)
(* least five cells of that colour containing (x, y) lies along one of the *)
(* four axes, wherever (x, y) lies within that run.                        *)
(***************************************************************************)
C18_WinDetection ==
    Gomoku =>
       \A in \in GameActions :
          LegalMove(in) =>
             LET r == ApplyAction(in) IN
             /\ r.res = "Ok"
             /\ WonBy(r.store[Chan], TurnByte(Info))
                   <=> FiveThrough(Placed(in), in.action[1], in.action[2])

(***************************************************************************)
(* C19: in the gomoku variants, a legal move that brings the board to 225  *)
(* stones (every grid cell occupied) without completing five in a row is   *)
(* accepted and leaves the channel Finalized with winner byte 0 and turn   *)
(* byte 0, whatever part of the stones was settled off chain.              *)
(***************************************************************************)
FillsBoard(in) ==
    /\ LegalMove(in)
    /\ GridStones(Placed(in)) = 225
    /\ ~FiveThrough(Placed(in), in.action[1], in.action[2])

C19_FullBoardDraw ==
    Gomoku =>
       \A in \in GameActions :
          FillsBoard(in) =>
             /\ ApplyAction(in).res = "Ok"
             /\ Drawn(ApplyAction(in).store[Chan])

(***************************************************************************)
(* The long game specification: a gomoku channel with a cap on on-chain    *)
(* stones is settled with a board of four stones and played on chain, each *)
(* player putting the next stone on the first empty cell of their colour   *)
(* in a colouring that never forms five in a line.  When the mover has no  *)
(* cell left the players settle the four-stone board again with a later    *)
(* proof and play on.  Blocks pass while a settle window is open.          *)
(* stone_num_onchain counts the on-chain moves of the channel.             *)
(***************************************************************************)
MaxOnchain == 256
MaxLongSeq == 230
MaxLongBlock == 6

LongCaps == {1, 255}

sg_LongRequests ==
    [nonce : {0}, players : {<<1, 2>>}, timeout : {1},
     min_stone_offchain : {2}, max_stone_onchain : LongCaps]
mg_LongRequests ==
    [nonce : {0}, player_num : {2}, players : {<<1, 2>>}, timeout : {1},
     min_stone_offchain : {2}, max_stone_onchain : LongCaps]

LongProofs(id) ==
    [id : {id}, nonce : {0}, seq : {1, MaxLongSeq}, payload : {"S"},
     plan : {BothSign}]

OnchainStones(info) == UnwrapOr(info.gomoku_state.stone_num_onchain, 0)

\* the first empty cell whose colour in the pattern is the colour to move
FreeCells(board, color) ==
    {i \in 0..224 :
        /\ PatternColor(i \div 15, i % 15) = color
        /\ At(board, HeaderLen + i) = 0}

NextMoves(info) ==
    IF ~HasBoard(info) THEN {}
    ELSE LET free == FreeCells(BoardOf(info), TurnByte(info)) IN
         IF free = {} THEN {}
         ELSE LET i == CHOOSE k \in free : \A m \in free : k <= m IN
              {<<i \div 15, i % 15>>}

LongActions ==
    IF ~Registered THEN {}
    ELSE [id : {Chan}, caller : GamePlayers, action : NextMoves(Info)]

\* a proof is submitted for a channel without a board, or when the mover
\* has no cell left to play
SettlesNext == Registered /\ NextMoves(Info) = {}

LongCall(op, id, arg, r) ==
    /\ \A i \in DOMAIN r.store : OnchainStones(r.store[i]) <= MaxOnchain
    /\ store' = r.store
    /\ last' = IF r.res = "Ok" \/ r.store # store
               THEN [op |-> op, id |-> id, arg |-> arg, res |-> r.res, pre |-> store]
               ELSE last
    /\ UNCHANGED <<variant, now>>

LongAdvance ==
    /\ Registered
    /\ Info.status = "Settle"
    /\ ~(now > Info.deadline)
    /\ now < MaxLongBlock
    /\ now' = now + 1
    /\ last' = NoCall
    /\ UNCHANGED <<variant, store>>

sg_LongInitiate ==
    /\ variant = "single_gomoku"
    /\ \E req \in sg_LongRequests :
          LongCall("initiate", sg_get_session_id(req.nonce, req.players), req,
                   sg_app_initiate(store, req))

sg_LongSettle ==
    /\ variant = "single_gomoku"
    /\ SettlesNext
    /\ \E in \in LongProofs(sg_Id) :
          LongCall("update_by_state", in.id, in,
                   sg_update_by_state(store, now, sg_StateProof(in)))

sg_LongMove ==
    /\ variant = "single_gomoku"
    /\ \E in \in LongActions :
          LongCall("update_by_action", in.id, in,
                   sg_update_by_action(store, now, in.caller, in.id, in.action))

mg_LongInitiate ==
    /\ variant = "multi_gomoku"
    /\ \E req \in mg_LongRequests :
          LongCall("initiate", mg_get_app_id(req.nonce, req.players), req,
                   mg_app_initiate(store, req))

mg_LongSettle ==
    /\ variant = "multi_gomoku"
    /\ SettlesNext
    /\ \E in \in LongProofs(mg_Id) :
          LongCall("update_by_state", in.id, in,
                   mg_update_by_state(store, now, mg_StateProof(in)))

mg_LongMove ==
    /\ variant = "multi_gomoku"
    /\ \E in \in LongActions :
          LongCall("update_by_action", in.id, in,
                   mg_update_by_action(store, now, in.caller, in.id, in.action))

LongNext ==
    \/ LongAdvance
    \/ sg_LongInitiate
    \/ sg_LongSettle
    \/ sg_LongMove
    \/ mg_LongInitiate
    \/ mg_LongSettle
    \/ mg_LongMove

SpecLongGame == GameInit /\ [][LongNext]_vars

(***************************************************************************)
(* C20: in the gomoku variants, for every max_stone_onchain in 0..255, an  *)
(* accepted non-winning move after which the number of stones placed on    *)
(* chain in the channel exceeds max_stone_onchain finalizes the channel as *)
(* a draw (winner 0, turn 0); hence a channel that is not Finalized never  *)
(* holds more than max_stone_onchain on-chain stones.                      *)
(***************************************************************************)
ExceedsCap(in) ==
    /\ LegalMove(in)
    /\ ~FiveThrough(Placed(in), in.action[1], in.action[2])
    /\ OnchainStones(Info) + 1 > Info.gomoku_state.max_stone_onchain

C20_OnchainCap ==
    /\ \A in \in LongActions :
          (ExceedsCap(in) /\ ApplyAction(in).res = "Ok")
             => Drawn(ApplyAction(in).store[Chan])
    /\ (Registered /\ Info.status # "Finalized")
          => OnchainStones(Info) <= Info.gomoku_state.max_stone_onchain

(***************************************************************************)
(* C21: in the gomoku variants, an accepted move that does not end the     *)
(* game toggles the turn byte to the other colour (1 -> 2, 2 -> 1) and     *)
(* leaves the status Action and the winner byte 0; consequently, as long   *)
(* as no proof is submitted, the player who made it cannot have another    *)
(* action accepted, at this block or at a later one.                       *)
(***************************************************************************)
MoveAt(st, n, in) ==
    IF variant = "single_gomoku"
    THEN sg_update_by_action(st, n, in.caller, in.id, in.action)
    ELSE mg_update_by_action(st, n, in.caller, in.id, in.action)

OtherColor(color) == IF color = 1 THEN 2 ELSE 1

PlaysOn(r) == r.res = "Ok" /\ r.store[Chan].status # "Finalized"

C21_TurnAlternates ==
    Gomoku =>
       \A in \in GameActions :
          LET r == ApplyAction(in) IN
          PlaysOn(r) =>
             /\ TurnByte(Info) \in {1, 2}
             /\ TurnByte(r.store[Chan]) = OtherColor(TurnByte(Info))
             /\ r.store[Chan].status = "Action"
             /\ WinnerByte(r.store[Chan]) = 0
             /\ \A again \in GameActions : \A n \in now..MaxBlock :
                   again.caller = in.caller
                      => MoveAt(r.store, n, again).res # "Ok"

\* a move was accepted, the game goes on, and the other player has a move
\* that would be accepted now
C21_Witness ==
    /\ Gomoku
    /\ Registered
    /\ last.op = "update_by_action"
    /\ last.res = "Ok"
    /\ Info.status = "Action"
    /\ TurnByte(Info) = OtherColor(TurnByte(last.pre[Chan]))
    /\ \E in \in GameActions :
          in.caller # last.arg.caller /\ PlaysOn(ApplyAction(in))

(***************************************************************************)
(* C22: in the gomoku variants, an apply_action from any account other     *)
(* than the player mapped to the stored turn colour (single-gomoku:        *)
(* players[turn-1]; multi-gomoku: players[turn-1] when the black-id byte   *)
(* is 1, players[2-turn] when it is 2), participant or not, is rejected    *)
(* and leaves the stored state unchanged; on a channel that takes moves    *)
(* the error is NotYourTurn, whatever the action bytes are.                *)
(***************************************************************************)
NotYourTurnError ==
    IF variant = "single_gomoku" THEN "not your turn" ELSE "Not your turn"

\* the stored turn colour maps to a player
HasMover(info) ==
    /\ HasBoard(info)
    /\ TurnByte(info) \in {1, 2}
    /\ variant = "multi_gomoku" => At(BoardOf(info), 2) \in {1, 2}

C22_NotYourTurn ==
    (Gomoku /\ Registered /\ HasMover(Info)) =>
       \A in \in GameActions :
          in.caller # MoverOf(Info) =>
             LET r == ApplyAction(in) IN
             /\ r.res # "Ok"
             /\ r.store = store
             /\ TakesMoves(Info) => r.res = NotYourTurnError

\* a multi-gomoku channel that takes moves, whose black player is the
\* second one, refuses an account that is no participant and the
\* participant whose turn it is not
C22_Witness ==
    /\ variant = "multi_gomoku"
    /\ Registered
    /\ HasMover(Info)
    /\ TakesMoves(Info)
    /\ At(BoardOf(Info), 2) = 2
    /\ \E in \in GameActions :
          in.caller = 3 /\ ApplyAction(in).res = NotYourTurnError
    /\ \E in \in GameActions :
          /\ in.caller \in {1, 2}
          /\ in.caller # MoverOf(Info)
          /\ ApplyAction(in).res = NotYourTurnError

(***************************************************************************)
(* C23: in the gomoku variants, on a channel that takes moves, a move by   *)
(* the player whose turn it is at (x, y) fails with OutOfBoundary when     *)
(* x >= 15 or y >= 15 and with SlotOccupied when the cell is not empty,    *)
(* both leaving the state unchanged; otherwise it is accepted, writes the  *)
(* mover's colour into exactly the cell header_length + 15 * x + y,        *)
(* changes no other grid cell, and increments stone_num and                *)
(* stone_num_onchain by 1.                                                 *)
(***************************************************************************)
ProbeMoves == GameMoves \cup {<<15, 0>>, <<0, 15>>, <<14, 14>>, <<0, 0>>}

MoveProbes ==
    IF Gomoku /\ Registered /\ HasMover(Info)
    THEN [id : {Chan}, caller : {MoverOf(Info)}, action : ProbeMoves]
    ELSE {}

StoneNum(info) == UnwrapOr(info.gomoku_state.stone_num, 0)
StoneNumOnchain(info) == UnwrapOr(info.gomoku_state.stone_num_onchain, 0)

\* the grid of `after` is the grid of `before` with colour c on (x, y)
OnlyCellWritten(before, after, x, y, c) ==
    /\ Len(after) = Len(before)
    /\ \A i \in HeaderLen..(Len(before) - 1) :
          At(after, i) = IF i = HeaderLen + 15 * x + y THEN c
                         ELSE At(before, i)

MoveEffect(in) ==
    LET r == ApplyAction(in)
        x == in.action[1]
        y == in.action[2]
    IN
    IF x >= 15 \/ y >= 15
    THEN r.res = "out of boundary" /\ r.store = store
    ELSE IF Cell(BoardOf(Info), x, y) # 0
    THEN r.res = "slot is occupied" /\ r.store = store
    ELSE /\ r.res = "Ok"
         /\ HasBoard(r.store[Chan])
         /\ OnlyCellWritten(BoardOf(Info), BoardOf(r.store[Chan]), x, y,
                            TurnByte(Info))
         /\ StoneNum(r.store[Chan]) = StoneNum(Info) + 1
         /\ StoneNumOnchain(r.store[Chan]) = StoneNumOnchain(Info) + 1

C23_MoveEffect ==
    (Gomoku /\ Registered /\ TakesMoves(Info)) =>
       \A in \in MoveProbes : MoveEffect(in)

(***************************************************************************)
(* C24: a validly signed proof with a sequence number above the stored one *)
(* that carries a terminal state finalizes the channel at once, whatever   *)
(* the block height and the stored deadline: in the gomoku variants a      *)
(* winner byte of 1 or 2 leaves the status Finalized and that value in the *)
(* stored winner byte; in the session variants a payload of 1 or 2 leaves  *)
(* the status Finalized and that value in the stored state byte.           *)
(***************************************************************************)
TerminalPayloads == IF Gomoku THEN {"V", "W"} ELSE {1, 2}

\* every proof of the channel, carrying each of the terminal payloads
TerminalProofs ==
    {[in EXCEPT !.payload = p] : in \in Proofs, p \in TerminalPayloads}

\* the byte that tells the outcome, as submitted and as stored
OutcomeOf(in) ==
    CASE variant = "single_gomoku" -> At(sg_Boards[in.payload], 0)
      [] variant = "multi_gomoku" -> At(mg_Boards[in.payload], 0)
      [] OTHER -> in.payload

StoredOutcome(info) ==
    IF Gomoku THEN WinnerByte(info) ELSE info.state

C24_TerminalProofFinalizes ==
    /\ (Registered /\ Info.status # "Finalized") =>
          \A in \in TerminalProofs :
             (ValidlySigned(in) /\ in.nonce = 0 /\ in.seq > Info.seq_num) =>
                LET r == SubmitState(in) IN
                /\ r.res = "Ok"
                /\ r.store[Chan].status = "Finalized"
                /\ StoredOutcome(r.store[Chan]) = OutcomeOf(in)
    /\ (Accepted("update_by_state") /\ Terminal(last.arg)) =>
          /\ Info.status = "Finalized"
          /\ StoredOutcome(Info) = OutcomeOf(last.arg)

\* a terminal proof has finalized a channel that was settling, before the
\* settle deadline
C24_Witness ==
    /\ Accepted("update_by_state")
    /\ Terminal(last.arg)
    /\ OutcomeOf(last.arg) \in {1, 2}
    /\ Before.status = "Settle"
    /\ now <= Before.deadline
    /\ Info.status = "Finalized"
    /\ StoredOutcome(Info) = OutcomeOf(last.arg)

(***************************************************************************)
(* C25: in the gomoku variants, a proof that is otherwise valid (signed by *)
(* both players, sequence number above the stored one, channel not         *)
(* Finalized, board of the right length) and whose winner byte is zero is  *)
(* accepted if and only if the number of non-empty cells among the 225     *)
(* grid cells is at least the channel's min_stone_offchain; a rejected     *)
(* proof leaves the stored state unchanged.                                *)
(***************************************************************************)
ProofBoard(in) ==
    IF variant = "single_gomoku" THEN sg_Boards[in.payload]
    ELSE mg_Boards[in.payload]

OtherwiseValid(in) ==
    /\ ValidlySigned(in)
    /\ in.nonce = 0
    /\ in.seq > Info.seq_num
    /\ Info.status # "Finalized"
    /\ Len(ProofBoard(in)) = HeaderLen + 225

C25_MinOffchainStones ==
    (Gomoku /\ Registered) =>
       \A in \in GameProofs :
          (OtherwiseValid(in) /\ At(ProofBoard(in), 0) = 0) =>
             LET r == SubmitState(in) IN
             /\ r.res = "Ok" <=> GridStones(ProofBoard(in))
                                    >= Info.gomoku_state.min_stone_offchain
             /\ r.res # "Ok" => r.store = store

(***************************************************************************)
(* C26: signature order, for a channel of two players (in multi-session,   *)
(* one created with player_num 2).  A proof carrying two signatures over   *)
(* the submitted state, the first by the second stored player and the      *)
(* second by the first stored player, passes the signature check of        *)
(* single-session (it is accepted whenever the channel is not Finalized,   *)
(* the nonce is the channel's and the sequence number is above the stored  *)
(* one) and is rejected with the signature error, the state unchanged, by  *)
(* single-gomoku, multi-session and multi-gomoku.                          *)
(***************************************************************************)
ReverseSigned(in) ==
    /\ Len(Info.players) = 2
    /\ variant = "multi_session" => Info.player_num = 2
    /\ in.plan = <<OverState(Info.players[2]), OverState(Info.players[1])>>

C26_SignatureOrder ==
    Registered =>
       \A in \in Proofs :
          ReverseSigned(in) =>
             LET r == SubmitState(in) IN
             IF variant = "single_session"
             THEN /\ r.res # SignatureError
                  /\ (Info.status # "Finalized" /\ in.nonce = 0
                         /\ in.seq > Info.seq_num) => r.res = "Ok"
             ELSE r = Result(SignatureError, store)

\* single-session has accepted a proof signed in the reverse order
C26_Witness ==
    /\ variant = "single_session"
    /\ Accepted("update_by_state")
    /\ Len(Before.players) = 2
    /\ last.arg.plan = <<OverState(Before.players[2]), OverState(Before.players[1])>>
    /\ Info.seq_num = last.arg.seq

(***************************************************************************)
(* C27: in the gomoku variants, whenever finalize_on_action_timeout moves  *)
(* a channel to Finalized, the stored turn byte was 1 or 2, the stored     *)
(* winner byte becomes the other colour (turn 1 -> winner 2, turn 2 ->     *)
(* winner 1), the turn byte becomes 0, and seq_num and deadline keep their *)
(* values.                                                                 *)
(***************************************************************************)
TimeoutOutcome(before, after) ==
    /\ HasBoard(before) /\ HasBoard(after)
    /\ TurnByte(before) \in {1, 2}
    /\ WinnerByte(after) = OtherColor(TurnByte(before))
    /\ TurnByte(after) = 0
    /\ after.seq_num = before.seq_num
    /\ after.deadline = before.deadline

C27_TimeoutWinner ==
    Gomoku =>
       /\ (Registered /\ Info.status # "Finalized") =>
             LET r == FinalizeOnTimeout IN
             r.store[Chan].status = "Finalized"
                => r.res = "Ok" /\ TimeoutOutcome(Info, r.store[Chan])
       /\ (Accepted("finalize") /\ Before.status # "Finalized"
              /\ Info.status = "Finalized") => TimeoutOutcome(Before, Info)

\* finalize_on_action_timeout has finalized a channel in Action mode whose
\* turn byte was 2: colour 1 has won
C27_Witness ==
    /\ Gomoku
    /\ Accepted("finalize")
    /\ Before.status = "Action"
    /\ TurnByte(Before) = 2
    /\ Info.status = "Finalized"
    /\ WinnerByte(Info) = 1
    /\ TurnByte(Info) = 0

(***************************************************************************)
(* C28: the deadline accessors.  In Settle get_settle_finalized_time       *)
(* returns the stored deadline and get_action_deadline returns that        *)
(* deadline plus the timeout; in Action get_action_deadline returns the    *)
(* stored deadline, which is the block of the last accepted action plus    *)
(* the timeout, and get_settle_finalized_time returns None; in Idle and    *)
(* in Finalized both return None.  (None is the empty sequence.)           *)
(***************************************************************************)
GetSettleFinalizedTime ==
    CASE variant = "single_session" -> ss_get_settle_finalized_time(store, Chan)
      [] variant = "multi_session" -> ms_get_settle_finalized_time(store, Chan)
      [] variant = "single_gomoku" -> sg_get_settle_finalized_time(store, Chan)
      [] variant = "multi_gomoku" -> mg_get_settle_finalized_time(store, Chan)

GetActionDeadline ==
    CASE variant = "single_session" -> ss_get_action_deadline(store, Chan)
      [] variant = "multi_session" -> ms_get_action_deadline(store, Chan)
      [] variant = "single_gomoku" -> sg_get_action_deadline(store, Chan)
      [] variant = "multi_gomoku" -> mg_get_action_deadline(store, Chan)

C28_DeadlineAccessors ==
    Registered =>
       /\ Info.status = "Settle" =>
             /\ GetSettleFinalizedTime = <<Info.deadline>>
             /\ GetActionDeadline = <<Info.deadline + Info.timeout>>
       /\ Info.status = "Action" =>
             /\ GetActionDeadline = <<Info.deadline>>
             /\ GetSettleFinalizedTime = <<>>
             \* the stored deadline is that of the last accepted action: it
             \* is set by the action and kept by every later call
             /\ Accepted("update_by_action") =>
                   GetActionDeadline = <<now + Info.timeout>>
             /\ (last.op \notin {"none", "update_by_action"}
                    /\ Chan \in DOMAIN last.pre) =>
                   /\ Before.status = "Action"
                   /\ Info.deadline = Before.deadline
       /\ Info.status \in {"Idle", "Finalized"} =>
             /\ GetSettleFinalizedTime = <<>>
             /\ GetActionDeadline = <<>>

\* a channel with a timeout of at least one block has just been moved from
\* Settle to Action by an accepted action
C28_Witness ==
    /\ Accepted("update_by_action")
    /\ Before.status = "Settle"
    /\ Info.status = "Action"
    /\ Info.timeout > 0
    /\ GetActionDeadline = <<now + Info.timeout>>
    /\ GetSettleFinalizedTime = <<>>

(***************************************************************************)
(* C29: the two queries on an existing channel.                            *)
(***************************************************************************)
\* a gomoku channel that no proof has been accepted for stores no board
NoBoard == Gomoku /\ ~HasBoard(Info)

\* the expected value is the stored winner byte (gomoku) or state byte
MatchesOutcome(query) ==
    IF NoBoard THEN FALSE ELSE StoredOutcome(Info) = query

IsFinalizedByStatus ==
    IsFinalized(Chan) =
        Result(IF Info.status = "Finalized" THEN "Ok" ELSE "NotFinalized", store)

FixedNames == {"players", "timeout", "nonce", "player_num"}
LimitNames == {"min_stone_offchain", "max_stone_onchain"}

\* the fields of a stored channel that are set by app_initiate only
FixedFields(info) ==
    <<[f \in DOMAIN info \cap FixedNames |-> info[f]],
      IF Gomoku
      THEN [f \in LimitNames |-> info.gomoku_state[f]]
      ELSE <<>>>>

\* the same fields as the request gives them
RequestedFields(req, info) ==
    <<[f \in DOMAIN info \cap FixedNames |-> req[f]],
      IF Gomoku THEN [f \in LimitNames |-> req[f]] ELSE <<>>>>

C30_FixedAtInitiation ==
    last.op # "none" =>
       /\ \A id \in DOMAIN last.pre :
             /\ id \in DOMAIN store
             /\ FixedFields(store[id]) = FixedFields(last.pre[id])
       /\ \A id \in DOMAIN store \ DOMAIN last.pre :
             /\ last.op = "initiate"
             /\ last.id = id
             /\ FixedFields(store[id]) = RequestedFields(last.arg, store[id])

\* a channel that went through submit_state has had an action accepted:
\* seq_num, deadline and status have changed, the fixed fields have not
C30_Witness ==
    /\ Accepted("update_by_action")
    /\ Before.status = "Settle"
    /\ Info.status = "Action"
    /\ Info.seq_num # Before.seq_num
    /\ Info.deadline # Before.deadline
    /\ FixedFields(Info) = FixedFields(Before)

(***************************************************************************)
(* C31: win before draw.  In the gomoku variants a legal move that         *)
(* completes five in a row and at the same time fills the board (225       *)
(* stones) or brings the on-chain stones above max_stone_onchain is        *)
(* accepted and finalizes the channel with winner byte = the mover's       *)
(* colour, never as a draw with winner byte 0.                             *)
(***************************************************************************)
WinsAndEnds(in) ==
    /\ LegalMove(in)
    /\ FiveThrough(Placed(in), in.action[1], in.action[2])
    /\ \/ GridStones(Placed(in)) = 225
       \/ StoneNumOnchain(Info) + 1 > Info.gomoku_state.max_stone_onchain

C31_WinBeforeDraw ==
    Gomoku =>
       \A in \in GameActions :
          WinsAndEnds(in) =>
             LET r == ApplyAction(in) IN
             /\ r.res = "Ok"
             /\ WonBy(r.store[Chan], TurnByte(Info))
             /\ ~Drawn(r.store[Chan])

(***************************************************************************)
(* C32: in the session variants an accepted apply_action with action code  *)
(* 1 or 2 leaves the status Finalized and any other accepted action code   *)
(* leaves it Action; in both cases the stored state byte keeps its value,  *)
(* so every get_outcome query is answered after the action as before it.   *)
(***************************************************************************)
Session == variant \in {"single_session", "multi_session"}

GetOutcomeOn(st, query) ==
    IF variant = "single_session" THEN ss_get_outcome(st, Chan, query)
    ELSE ms_get_outcome(st, Chan, query)

C32_SessionActionEffect ==
    Session =>
       /\ Registered =>
             \A in \in Actions :
                LET r == ApplyAction(in) IN
                r.res = "Ok" =>
                   /\ r.store[Chan].status =
                         IF in.action \in {1, 2} THEN "Finalized" ELSE "Action"
                   /\ r.store[Chan].state = Info.state
                   /\ \A query \in StateBytes :
                         GetOutcomeOn(r.store, query).res
                            = GetOutcomeOn(store, query).res
       /\ Accepted("update_by_action") =>
             /\ Info.status = IF last.arg.action \in {1, 2} THEN "Finalized"
                              ELSE "Action"
             /\ Info.state = Before.state

\* action code 1 has finalized a session channel whose state byte is 0:
\* get_outcome(0) still succeeds and get_outcome(1) still fails
C32_Witness ==
    /\ Session
    /\ Accepted("update_by_action")
    /\ last.arg.action = 1
    /\ Info.status = "Finalized"
    /\ Info.state = 0
    /\ GetOutcomeOn(store, 0).res = "Ok"
    /\ GetOutcomeOn(store, 1).res = "FalseOutcome"

(***************************************************************************)
(* C33: in the gomoku variants the stored board is absent exactly when the *)
(* channel is Idle, that is before the first accepted submit_state; in     *)
(* every reachable Settle, Action or Finalized state the board is present  *)
(* and has exactly 227 bytes (single-gomoku) or 228 bytes (multi-gomoku).  *)
(***************************************************************************)
BoardLength == HeaderLen + 225

C33_BoardPresence ==
    Gomoku =>
       \A id \in DOMAIN store :
          /\ HasBoard(store[id]) <=> store[id].status # "Idle"
          /\ HasBoard(store[id]) => Len(BoardOf(store[id])) = BoardLength

\* a proof has moved the channel out of Idle and stored its board, and a
\* fresh, co-signed board of another length is refused
C33_Witness ==
    /\ Gomoku
    /\ Accepted("update_by_state")
    /\ Before.status = "Idle"
    /\ ~HasBoard(Before)
    /\ HasBoard(Info)
    /\ Len(BoardOf(Info)) = BoardLength
    /\ \E in \in Proofs :
          /\ ValidlySigned(in) /\ in.nonce = 0 /\ in.seq > Info.seq_num
          /\ Len(ProofBoard(in)) # BoardLength
          /\ SubmitState(in).res # "Ok"

(***************************************************************************)
(* Channels left to time out.  Requests, proofs and actions are submitted  *)
(* during the first SetupBlocks blocks only; from then on the block height *)
(* keeps advancing and finalize_on_action_timeout keeps being called.  The *)
(* clock runs until every deadline the store can hold, and the timeout     *)
(* after it, have passed.                                                  *)
(***************************************************************************)
SetupBlocks == 3
LastBlock == MaxDeadline + MaxTimeout + 1

TimeoutInitiate ==
    /\ now <= SetupBlocks
    /\ \E req \in InitiateRequests :
          Call("initiate", RequestId(req), req, InitiateOn(store, req))

TimeoutSettle ==
    /\ now <= SetupBlocks
    /\ \E in \in Proofs : Call("update_by_state", in.id, in, SubmitState(in))

TimeoutMove ==
    /\ now <= SetupBlocks
    /\ \E in \in Actions : Call("update_by_action", in.id, in, ApplyAction(in))

TimeoutFinalize ==
    Call("finalize", Chan, [none |-> TRUE], FinalizeOnTimeout)

TimeoutAdvance ==
    /\ now < LastBlock
    /\ now' = now + 1
    /\ last' = NoCall
    /\ UNCHANGED <<variant, store>>

TimeoutNext ==
    \/ TimeoutInitiate
    \/ TimeoutSettle
    \/ TimeoutMove
    \/ TimeoutFinalize
    \/ TimeoutAdvance

\* the block height keeps advancing and finalize keeps being called
SpecTimeout ==
    /\ Init
    /\ [][TimeoutNext]_vars
    /\ WF_vars(TimeoutAdvance)
    /\ WF_vars(TimeoutFinalize)

(***************************************************************************)
(* C34: eventual finalization.  In every variant a channel that has left   *)
(* Idle, whatever state a signed proof has installed in it, eventually     *)
(* reaches Finalized once no further proofs or actions are submitted while *)
(* the block height keeps advancing and finalize_on_action_timeout keeps   *)
(* being called.                                                           *)
(***************************************************************************)
LeftIdle == Registered /\ Info.status # "Idle"
IsFinal == Registered /\ Info.status = "Finalized"

C34_EventualFinalization == LeftIdle ~> IsFinal

(***************************************************************************)
(* C35: in the multi-player variants (multi-session, multi-gomoku),        *)
(* initiate with an id that is not registered and a strictly ascending     *)
(* participant list of any length n >= 2, n >= 3 included, succeeds and    *)
(* registers an Idle channel with seq_num 0 whose players are exactly the  *)
(* given list.                                                             *)
(***************************************************************************)
MultiPlayer == variant \in {"multi_session", "multi_gomoku"}

\* the requests of the registry, each declaring as many players as it lists
MultiRequests ==
    IF MultiPlayer
    THEN {[req EXCEPT !.player_num = Len(req.players)] : req \in RegRequests}
    ELSE {}

C35_AscendingListAccepted ==
    \A req \in MultiRequests :
       (/\ Len(req.players) >= 2
        /\ StrictlyAscending(req.players)
        /\ RequestId(req) \notin DOMAIN store) =>
          LET r == InitiateOn(store, req) IN
          /\ r.res = "Ok"
          /\ RequestId(req) \in DOMAIN r.store
          /\ r.store[RequestId(req)].status = "Idle"
          /\ r.store[RequestId(req)].seq_num = 0
          /\ r.store[RequestId(req)].players = req.players

(***************************************************************************)
(* C36: in the gomoku variants, in every reachable state where the board   *)
(* is present, the stored stone_num equals the number of non-zero cells    *)
(* among the 225 grid cells of the stored board (stones settled off chain  *)
(* plus stones placed on chain).                                           *)
(***************************************************************************)
C36_StoneCount ==
    Gomoku =>
       \A id \in DOMAIN store :
          HasBoard(store[id]) =>
             StoneNum(store[id]) = GridStones(BoardOf(store[id]))

(***************************************************************************)
(* C37: in the gomoku variants every reachable Finalized state has turn    *)
(* byte 0 in the stored board, whichever path finalized the channel (five  *)
(* in a row, draw, timeout, or an off-chain proof carrying a winner).      *)
(***************************************************************************)
C37_FinalizedTurnCleared ==
    Gomoku =>
       \A id \in DOMAIN store :
          store[id].status = "Finalized" =>
             /\ HasBoard(store[id])
             /\ TurnByte(store[id]) = 0

(***************************************************************************)
(* C38: in the gomoku variants, whenever the board is present its winner   *)
(* byte is 0, 1 or 2, and a non-zero winner byte implies that the channel  *)
(* is Finalized; a proof whose winner byte is above 2 is rejected and      *)
(* leaves the stored state unchanged.                                      *)
(***************************************************************************)
InvalidWinner(in) == At(ProofBoard(in), 0) > 2

C38_WinnerByte ==
    Gomoku =>
       /\ \A id \in DOMAIN store :
             HasBoard(store[id]) =>
                /\ WinnerByte(store[id]) \in {0, 1, 2}
                /\ WinnerByte(store[id]) # 0 => store[id].status = "Finalized"
       /\ \A in \in Proofs :
             InvalidWinner(in) =>
                LET r == SubmitState(in) IN
                /\ r.res \notin {"Ok", "panic"}
                /\ r.store = store

\* a settling channel with a board, on which a proof that both players signed
\* with a fresh sequence number and winner byte 3 is refused for its winner
C38_Witness ==
    /\ Gomoku
    /\ Registered
    /\ Info.status = "Settle"
    /\ HasBoard(Info)
    /\ \E in \in Proofs :
          /\ OtherwiseValid(in)
          /\ InvalidWinner(in)
          /\ SubmitState(in).res = "invalid winner state"

(***************************************************************************)
(* C39: no public operation and no accessor aborts abnormally, in any      *)
(* reachable state, for any caller and any argument: every call of         *)
(* initiate, update_by_state, update_by_action, finalize_on_action_timeout,*)
(* is_finalized, get_outcome and of the read accessors returns Ok, an      *)
(* error, or a value.  The inputs include actions on a board whose turn    *)
(* byte is 0 or above 2, action payloads shorter than two bytes, proofs    *)
(* with fewer signatures than players, get_state on a gomoku channel that  *)
(* stores no board, and moves beside five stones already in line.          *)
(***************************************************************************)
\* an accessor's answer is a value (a sequence), or the abort of the call
Aborted(answer) == ToString(answer) = ToString("panic")

GetStateAnswers(id) ==
    CASE variant = "single_session" -> <<ss_get_state(store, id)>>
      [] variant = "multi_session" -> <<ms_get_state(store, id)>>
      [] variant = "single_gomoku" ->
            [key \in 1..4 |-> sg_get_state(store, id, key - 1)]
      [] variant = "multi_gomoku" ->
            [key \in 1..4 |-> mg_get_state(store, id, key - 1)]

C39_NoAbort ==
    /\ \A req \in InitiateRequests : InitiateOn(store, req).res # "panic"
    /\ \A in \in AllProofs : SubmitState(in).res # "panic"
    /\ \A in \in AllActions : ApplyAction(in).res # "panic"
    /\ \A id \in Ids :
          /\ FinalizeOnTimeoutOf(id).res # "panic"
          /\ IsFinalized(id).res # "panic"
          /\ \A query \in StateBytes : GetOutcome(id, query).res # "panic"
          /\ \A k \in DOMAIN GetStateAnswers(id) :
                ~Aborted(GetStateAnswers(id)[k])

(***************************************************************************)
(* Sequence numbers at their width.  seq_num is a u128 and apply_action    *)
(* computes `seq_num + 1` with the plain operator: at the maximum of the   *)
(* type the addition overflows, which aborts the call in a build with      *)
(* overflow checks and wraps to 0 in a build without them.  The type is    *)
(* scaled to SeqNumBits bits; the handlers above compute the sum in the    *)
(* integers, and AtWidth gives the outcomes a build can produce from it.   *)
(* Nothing in a handler reads seq_num after the addition.                  *)
(***************************************************************************)
SeqNumBits == 2
SeqNumMax == 2 ^ SeqNumBits - 1

Overflowed(r) == \E i \in DOMAIN r.store : r.store[i].seq_num > SeqNumMax

Wrapped(r) ==
    [r EXCEPT !.store =
        [i \in DOMAIN r.store |->
            [r.store[i] EXCEPT !.seq_num = @ % (SeqNumMax + 1)]]]

AtWidth(st, r) ==
    IF Overflowed(r) THEN {Result("panic", st), Wrapped(r)} ELSE {r}

\* proofs as before, and each of them with the largest sequence number
WidthProofs == Proofs \cup {[in EXCEPT !.seq = SeqNumMax] : in \in Proofs}

WidthCall(op, id, arg, r) ==
    /\ \A i \in DOMAIN r.store : r.store[i].deadline <= MaxDeadline
    /\ store' = r.store
    /\ last' = IF r.res = "Ok" \/ r.store # store
               THEN [op |-> op, id |-> id, arg |-> arg, res |-> r.res, pre |-> store]
               ELSE last
    /\ UNCHANGED <<variant, now>>

WidthInitiate ==
    \E req \in InitiateRequests :
       WidthCall("initiate", RequestId(req), req, InitiateOn(store, req))

WidthSettle ==
    \E in \in WidthProofs :
       WidthCall("update_by_state", in.id, in, SubmitState(in))

WidthMove ==
    \E in \in Actions :
       \E r \in AtWidth(store, ApplyAction(in)) :
          WidthCall("update_by_action", in.id, in, r)

WidthFinalize == WidthCall("finalize", Chan, [none |-> TRUE], FinalizeOnTimeout)

WidthNext ==
    WidthInitiate \/ WidthSettle \/ WidthMove \/ WidthFinalize \/ AdvanceBlock

SpecWidth == Init /\ [][WidthNext]_vars

(***************************************************************************)
(* C40: sequence-number arithmetic never wraps.  For every stored seq_num  *)
(* a proof can install, the maximum of the type included, an accepted      *)
(* apply_action (update_by_action) leaves the stored seq_num strictly      *)
(* greater than it was, never a smaller, wrapped-around value.             *)
(***************************************************************************)
C40_SeqNumNeverWraps ==
    Accepted("update_by_action") => Info.seq_num > Before.seq_num

====
